---- MODULE Spec2Model ----
(***************************************************************************)
(* Model of the financial-analysis edge function                            *)
(* (supabase/functions/financial-analysis/index.ts), of the category       *)
(* taxonomy (src/data/categories.ts) and of the client's calculations      *)
(* (utils/calculations.ts, Dashboard, SavingsDashboard) and budget          *)
(* operations (BudgetSettings, App, storage).                               *)
(*                                                                          *)
(* Specifications:                                                          *)
(*   Spec          the serve handler on a 'categorize' request: either the *)
(*                 keyword fallback (no API key) or categorizeTransactions, *)
(*                 one step per awaited fetch of a batch.                   *)
(*   SpecClassify  the keyword fallback classifiers (the server's and the   *)
(*                 client's) applied to one description drawn from a        *)
(*                 bounded set of strings.                                  *)
(*   SpecSavings   the savings / net-worth computations of the server, of   *)
(*                 calculateSavingsProgress, of the Dashboard and of the    *)
(*                 SavingsDashboard on one transaction list.                *)
(*   SpecTotals    calculateMonthlyTotals on one transaction list and one   *)
(*                 budget list.                                             *)
(*   SpecVariance  getBudgetVariance on one (actual, budget) pair.          *)
(*   SpecTrend     the monthly trend series of the Dashboard, of the        *)
(*                 server and of the earlier Dashboard.                     *)
(*   SpecBudget    saving budgets and loading sample budgets, with the      *)
(*                 budgets kept in localStorage or in the Supabase table.   *)
(*                                                                          *)
(* Every specification leaves the variables of the others at their idle     *)
(* values.                                                                  *)
(*                                                                          *)
(* A description is a sequence of one-character strings, so that            *)
(* String.prototype.includes and toLowerCase are computed, not assumed.     *)
(***************************************************************************)
EXTENDS Integers, Sequences, FiniteSets, TLC

VARIABLES
    openaiApiKey,             \* TRUE iff Deno.env.get('OPENAI_API_KEY') is set
    transactions,             \* the request body's transactions
    categorizedTransactions,  \* the list the handler builds and returns
    i,                        \* loop index of categorizeTransactions (0-based)
    pc,                       \* "serve" | "loop" | "responded" | "idle"
    fetched,                  \* the fetch calls made: one sequence of ids per call
    replies,                  \* what each fetch call produced
    status,                   \* HTTP status of the response, 0 before it
    description,              \* SpecClassify: the input description
    classified,               \* SpecClassify: the classifier's result
    cpc,                      \* SpecClassify: "input" | "done" | "doneClient" | "idle"
    arg,                      \* calculation specs: the arguments of the call
    out,                      \* calculation specs: what the call returned
    fpc,                      \* calculation specs: "input" | the call made | "idle"
    app,                      \* SpecBudget: "local" | "supabase" storage; "idle"
    currentDate,              \* SpecBudget: the date of the browser's clock
    budgets,                  \* SpecBudget: the App's budgets state
    stored,                   \* SpecBudget: the budgets in storage
    saved,                    \* SpecBudget: month and entries of the save just made
    session,                  \* SpecStore: TRUE iff supabase.auth.getUser() has a user
    appTransactions,          \* SpecStore: the App's transactions state
    storedTransactions,       \* SpecStore: the user's rows of table transactions
    nextId,                   \* SpecStore: the next id the table / generateId gives
    result,                   \* SpecStore: operation made last and the error it got
    calls                     \* SpecRace: the two saveBudgets calls in progress

\* The variables of the calculation specifications.
calcVars == << arg, out, fpc >>

\* The variables of SpecBudget.
budgetVars == << app, currentDate, budgets, stored, saved >>

\* The variables of SpecStore and SpecRace.
storeVars == << session, appTransactions, storedTransactions, nextId, result,
               calls >>

vars == << openaiApiKey, transactions, categorizedTransactions, i, pc, fetched,
           replies, status, description, classified, cpc, arg, out, fpc,
           app, currentDate, budgets, stored, saved,
           session, appTransactions, storedTransactions, nextId, result, calls >>

(***************************************************************************)
(* Bounds of the model.                                                     *)
(***************************************************************************)
MaxTx == 21        \* longest request body
MaxWords == 2      \* most words in a description of SpecClassify
MaxCalcTx == 2     \* longest transaction list of the calculation specs
MaxAmount == 7     \* largest actual / budget amount of SpecVariance
MaxTrendMonths == 8  \* calendar months the transactions of SpecTrend span
MaxBudgets == 100  \* sample budgets are loaded while the list is this short

\* const batchSize = 10
batchSize == 10

\* The value of an absent property (transaction.category, entry.type, ...).
undefined == "undefined"

(***************************************************************************)
(* src/data/categories.ts                                                   *)
(***************************************************************************)
EXPENSE_CATEGORIES ==
    [c \in {"Living Expenses", "Rental", "Debt", "Education", "Healthcare",
            "Transportation", "Entertainment", "Shopping", "Insurance", "Taxes",
            "Charity", "Savings", "Other"} |->
       CASE c = "Living Expenses" ->
              {"Grocery", "Maids", "Fruits & Vegetables", "Food", "Household Items",
               "Utilities", "Electricity", "Gas", "Water", "Internet", "Phone",
               "Personal Care", "Toiletries", "Laundry", "Kitchen Supplies"}
         [] c = "Rental" ->
              {"House Rent", "Apartment Rent", "Office Rent", "Parking Rent",
               "Storage Rent", "Equipment Rent"}
         [] c = "Debt" ->
              {"Car Loan", "Home Loan", "Personal Loan", "Credit Card Payment",
               "Student Loan", "Business Loan", "EMI", "Interest Payment"}
         [] c = "Education" ->
              {"School Fees", "Tuition", "College Fees", "Training", "Courses",
               "Books", "Educational Materials", "Exam Fees", "Coaching"}
         [] c = "Healthcare" ->
              {"Medical Bills", "Doctor Consultation", "Medicine", "Hospital",
               "Dental", "Health Insurance", "Lab Tests", "Surgery", "Therapy"}
         [] c = "Transportation" ->
              {"Fuel", "Car Maintenance", "Public Transport", "Taxi", "Uber",
               "Bus", "Train", "Flight", "Car Insurance", "Vehicle Registration"}
         [] c = "Entertainment" ->
              {"Movies", "Dining Out", "Vacation", "Sports", "Hobbies",
               "Subscriptions", "Netflix", "Spotify", "Gaming", "Books"}
         [] c = "Shopping" ->
              {"Clothes", "Electronics", "Gifts", "Jewelry", "Furniture",
               "Home Decor", "Appliances", "Personal Items"}
         [] c = "Insurance" ->
              {"Life Insurance", "Health Insurance", "Car Insurance", "Home Insurance",
               "Travel Insurance", "Professional Insurance"}
         [] c = "Taxes" ->
              {"Income Tax", "Property Tax", "GST", "Professional Tax",
               "Vehicle Tax", "Other Taxes"}
         [] c = "Charity" ->
              {"Donations", "Religious Contributions", "NGO Support", "Community Support"}
         [] c = "Savings" ->
              {"SIPs", "Fixed Deposits", "Recurring Deposits", "Emergency Fund",
               "Investment Savings", "Retirement Savings"}
         [] c = "Other" ->
              {"Miscellaneous", "Bank Charges", "Legal Fees", "Professional Services",
               "Repairs", "Maintenance"}]

INCOME_CATEGORIES ==
    [c \in {"Salary", "Dividend", "Rental Income", "Business", "Other"} |->
       CASE c = "Salary" ->
              {"Salary", "Wages", "Bonus", "Overtime", "Commission", "Tips",
               "Freelance Income", "Consulting Income"}
         [] c = "Dividend" ->
              {"Dividends", "Interest", "Capital Gains", "Mutual Fund Returns",
               "Stock Profits", "Bond Interest", "Crypto Gains"}
         [] c = "Rental Income" ->
              {"Property Rent", "Room Rent", "Commercial Rent", "Parking Rent",
               "Equipment Rental", "Airbnb Income"}
         [] c = "Business" ->
              {"Business Profits", "Partnership Income", "Royalties", "Licensing",
               "Product Sales", "Service Income"}
         [] c = "Other" ->
              {"Gifts", "Inheritance", "Insurance Claims", "Refunds", "Cashback",
               "Prize Money", "Government Benefits", "Pension"}]

(***************************************************************************)
(* Strings as sequences of characters.                                      *)
(***************************************************************************)
UpperCase == <<"A","B","C","D","E","F","G","H","I","J","K","L","M",
               "N","O","P","Q","R","S","T","U","V","W","X","Y","Z">>
LowerCase == <<"a","b","c","d","e","f","g","h","i","j","k","l","m",
               "n","o","p","q","r","s","t","u","v","w","x","y","z">>

\* String.prototype.toLowerCase
toLowerCase(s) ==
    [k \in 1..Len(s) |->
        IF \E u \in 1..Len(UpperCase) : UpperCase[u] = s[k]
        THEN LowerCase[CHOOSE u \in 1..Len(UpperCase) : UpperCase[u] = s[k]]
        ELSE s[k]]

\* String.prototype.includes: keyword occurs in s as a contiguous substring
includes(s, keyword) ==
    \E k \in 0..(Len(s) - Len(keyword)) :
        \A j \in 1..Len(keyword) : s[k + j] = keyword[j]

\* keywords.some(keyword => s.includes(keyword)), and a chain of || includes
includesAny(s, keywords) ==
    \E k \in 1..Len(keywords) : includes(s, keywords[k])

(***************************************************************************)
(* categorizeTransactionsFallback: the keyword classifier.                  *)
(***************************************************************************)
incomeKeywords ==
    << <<"s","a","l","a","r","y">>, <<"w","a","g","e">>, <<"w","a","g","e","s">>, <<"b","o","n","u","s">>, <<"i","n","c","o","m","e">>, <<"p","a","y">>, <<"p","a","y","c","h","e","c","k">>,
       <<"p","a","y","m","e","n","t">>, <<"d","i","v","i","d","e","n","d">>, <<"i","n","t","e","r","e","s","t">>, <<"r","e","n","t"," ","i","n","c","o","m","e">>, <<"f","r","e","e","l","a","n","c","e">>,
       <<"c","o","m","m","i","s","s","i","o","n">>, <<"r","e","f","u","n","d">>, <<"c","a","s","h","b","a","c","k">>, <<"r","e","i","m","b","u","r","s","e","m","e","n","t">>, <<"a","l","l","o","w","a","n","c","e">>,
       <<"s","t","i","p","e","n","d">>, <<"p","e","n","s","i","o","n">>, <<"b","e","n","e","f","i","t","s">> >>

isIncome(d) == includesAny(d, incomeKeywords)

\* The secondary keyword checks of the income branch, in the order of the code.
IncomeRules ==
    << [keywords |-> << <<"s","a","l","a","r","y">>, <<"w","a","g","e">>, <<"b","o","n","u","s">> >>,
        category |-> "Salary", subcategory |-> "Salary"],
       [keywords |-> << <<"d","i","v","i","d","e","n","d">>, <<"i","n","t","e","r","e","s","t">> >>,
        category |-> "Dividend", subcategory |-> "Dividends"],
       [keywords |-> << <<"r","e","n","t"," ","i","n","c","o","m","e">>, <<"r","e","n","t","a","l"," ","i","n","c","o","m","e">> >>,
        category |-> "Rental Income", subcategory |-> "Property Rent"] >>

\* if (grocery || maids || fruits || vegetables || food): the first expense check
LivingRule ==
    [keywords |-> << <<"g","r","o","c","e","r","y">>, <<"m","a","i","d","s">>, <<"f","r","u","i","t","s">>, <<"v","e","g","e","t","a","b","l","e","s">>, <<"f","o","o","d">> >>,
     category |-> "Living Expenses", subcategory |-> "Grocery"]

\* The investment / savings checks, in the order of the code.
SavingsRules ==
    << [keywords |-> << <<"s","i","p">>, <<"s","y","s","t","e","m","a","t","i","c"," ","i","n","v","e","s","t","m","e","n","t">> >>,
        category |-> "Savings", subcategory |-> "SIPs"],
       [keywords |-> << <<"m","u","t","u","a","l"," ","f","u","n","d">>, <<"m","f"," ">>, <<" ","m","f">>, <<"m","u","t","u","a","l">>, <<"f","u","n","d">> >>,
        category |-> "Savings", subcategory |-> "Mutual Fund"],
       [keywords |-> << <<"s","t","o","c","k">>, <<"s","t","o","c","k","s">>, <<"e","q","u","i","t","y">>, <<"s","h","a","r","e","s">> >>,
        category |-> "Savings", subcategory |-> "Stocks"],
       [keywords |-> << <<"f","d"," ">>, <<" ","f","d">>, <<"f","i","x","e","d"," ","d","e","p","o","s","i","t">>, <<"f","d">>, <<"d","e","p","o","s","i","t">> >>,
        category |-> "Savings", subcategory |-> "Fixed Deposits"],
       [keywords |-> << <<"r","d"," ">>, <<" ","r","d">>, <<"r","e","c","u","r","r","i","n","g"," ","d","e","p","o","s","i","t">>, <<"r","e","c","u","r","r","i","n","g">> >>,
        category |-> "Savings", subcategory |-> "Recurring Deposits"],
       [keywords |-> << <<"a","i","f">>, <<"a","l","t","e","r","n","a","t","i","v","e"," ","i","n","v","e","s","t","m","e","n","t">> >>,
        category |-> "Savings", subcategory |-> "AIF"],
       [keywords |-> << <<"i","n","v","e","s","t","m","e","n","t">>, <<"i","n","v","e","s","t">>, <<"s","a","v","i","n","g">>, <<"p","p","f">>, <<"n","s","c">>, <<"e","l","s","s">> >>,
        category |-> "Savings", subcategory |-> "Investment Savings"] >>

\* The remaining expense checks, in the order of the code.
OtherExpenseRules ==
    << [keywords |-> << <<"h","o","u","s","e"," ","r","e","n","t">>, <<"r","e","n","t">> >>,
        category |-> "Rental", subcategory |-> "House Rent"],
       [keywords |-> << <<"c","a","r"," ","l","o","a","n">>, <<"h","o","m","e"," ","l","o","a","n">>, <<"l","o","a","n">>, <<"e","m","i">> >>,
        category |-> "Debt", subcategory |-> "Car Loan"],
       [keywords |-> << <<"s","c","h","o","o","l"," ","f","e","e","s">>, <<"t","u","i","t","i","o","n">>, <<"e","d","u","c","a","t","i","o","n">> >>,
        category |-> "Education", subcategory |-> "School Fees"],
       [keywords |-> << <<"g","a","s">>, <<"u","b","e","r">>, <<"t","a","x","i">>, <<"b","u","s">> >>,
        category |-> "Transportation", subcategory |-> "Taxi"],
       [keywords |-> << <<"m","o","v","i","e">>, <<"n","e","t","f","l","i","x">>, <<"s","p","o","t","i","f","y">>, <<"e","n","t","e","r","t","a","i","n","m","e","n","t">>,
                        <<"v","a","c","a","t","i","o","n">>, <<"h","o","l","i","d","a","y">>, <<"r","e","s","t","a","u","r","a","n","t">>, <<"d","i","n","i","n","g">> >>,
        category |-> "Entertainment", subcategory |-> "Movies"],
       [keywords |-> << <<"m","e","d","i","c","a","l">>, <<"d","o","c","t","o","r">>, <<"h","o","s","p","i","t","a","l">>, <<"p","h","a","r","m","a","c","y">>, <<"m","e","d","i","c","i","n","e">> >>,
        category |-> "Healthcare", subcategory |-> "Medical Bills"],
       [keywords |-> << <<"u","t","i","l","i","t","i","e","s">>, <<"e","l","e","c","t","r","i","c","i","t","y">>, <<"w","a","t","e","r">>, <<"g","a","s"," ","b","i","l","l">> >>,
        category |-> "Living Expenses", subcategory |-> "Utilities"] >>

\* The chain of expense if-statements, top to bottom.
ExpenseRules == <<LivingRule>> \o SavingsRules \o OtherExpenseRules

\* The first rule of a chain of if-statements, from position k on, whose
\* keywords match; the return after the chain when none does.
RECURSIVE FirstMatch(_, _, _, _)
FirstMatch(d, rules, k, default) ==
    IF k > Len(rules)
    THEN default
    ELSE IF includesAny(d, rules[k].keywords)
    THEN [category |-> rules[k].category, subcategory |-> rules[k].subcategory]
    ELSE FirstMatch(d, rules, k + 1, default)

\* The branch taken when isIncome; its last return is Salary / Salary.
IncomeResult(d) ==
    LET r == FirstMatch(d, IncomeRules, 1,
                        [category |-> "Salary", subcategory |-> "Salary"])
    IN  [type |-> "income", category |-> r.category, subcategory |-> r.subcategory]

\* The expense checks; the last return is Other / Miscellaneous.
ExpenseResult(d) ==
    LET r == FirstMatch(d, ExpenseRules, 1,
                        [category |-> "Other", subcategory |-> "Miscellaneous"])
    IN  [type |-> "expense", category |-> r.category, subcategory |-> r.subcategory]

\* Income checked after the savings keywords instead of before them.
ClassifyDescription_SavingsFirst(text) ==
    LET d == toLowerCase(text)
    IN  IF \E k \in 1..Len(SavingsRules) : includesAny(d, SavingsRules[k].keywords)
        THEN ExpenseResult(d)
        ELSE IF isIncome(d) THEN IncomeResult(d) ELSE ExpenseResult(d)

\* The {type, category, subcategory} the callback of transactions.map computes.
ClassifyDescription(text) ==
    LET d == toLowerCase(text)
    IN  IF isIncome(d) THEN IncomeResult(d) ELSE ExpenseResult(d)

\* { ...transaction, type, category, subcategory }
ClassifyTransaction(t) ==
    LET r == ClassifyDescription(t.description)
    IN  [t EXCEPT !.type = r.type, !.category = r.category,
                  !.subcategory = r.subcategory]

categorizeTransactionsFallback(txs) ==
    [k \in 1..Len(txs) |-> ClassifyTransaction(txs[k])]

(***************************************************************************)
(* categorizeTransactionFallback of the AddTransaction component: the       *)
(* client-side keyword classifier of manual entry and CSV import.           *)
(***************************************************************************)
clientIncomeKeywords ==
    << <<"s","a","l","a","r","y">>, <<"w","a","g","e">>, <<"w","a","g","e","s">>, <<"b","o","n","u","s">>, <<"i","n","c","o","m","e">>, <<"p","a","y">>, <<"p","a","y","c","h","e","c","k">>,
       <<"p","a","y","m","e","n","t">>, <<"d","i","v","i","d","e","n","d">>, <<"i","n","t","e","r","e","s","t">>, <<"r","e","n","t"," ","i","n","c","o","m","e">>, <<"f","r","e","e","l","a","n","c","e">>,
       <<"c","o","m","m","i","s","s","i","o","n">>, <<"r","e","f","u","n","d">>, <<"c","a","s","h","b","a","c","k">>, <<"r","e","i","m","b","u","r","s","e","m","e","n","t">>, <<"a","l","l","o","w","a","n","c","e">>,
       <<"s","t","i","p","e","n","d">>, <<"p","e","n","s","i","o","n">>, <<"b","e","n","e","f","i","t","s">> >>

\* The secondary checks of the client's income branch.
ClientIncomeRules ==
    << [keywords |-> << <<"s","a","l","a","r","y">>, <<"w","a","g","e">>, <<"b","o","n","u","s">> >>,
        category |-> "Salary", subcategory |-> "Salary"],
       [keywords |-> << <<"d","i","v","i","d","e","n","d">>, <<"i","n","t","e","r","e","s","t">> >>,
        category |-> "Dividend", subcategory |-> "Dividends"] >>

\* The client's expense checks, in the order of the code.
ClientExpenseRules ==
    << [keywords |-> << <<"g","r","o","c","e","r","y">>, <<"f","o","o","d">>, <<"s","u","p","e","r","m","a","r","k","e","t">> >>,
        category |-> "Living Expenses", subcategory |-> "Grocery"],
       [keywords |-> << <<"r","e","n","t">>, <<"r","e","n","t","a","l">> >>,
        category |-> "Rental", subcategory |-> "House Rent"],
       [keywords |-> << <<"f","u","e","l">>, <<"g","a","s">>, <<"p","e","t","r","o","l">> >>,
        category |-> "Transportation", subcategory |-> "Fuel"],
       [keywords |-> << <<"m","e","d","i","c","a","l">>, <<"d","o","c","t","o","r">>, <<"h","o","s","p","i","t","a","l">> >>,
        category |-> "Healthcare", subcategory |-> "Medical Bills"],
       [keywords |-> << <<"m","o","v","i","e">>, <<"r","e","s","t","a","u","r","a","n","t">>, <<"d","i","n","i","n","g">> >>,
        category |-> "Entertainment", subcategory |-> "Dining Out"] >>

\* The {type, category, subcategory} categorizeTransactionFallback returns;
\* (transaction.description || '') makes an absent description the empty one.
ClientClassifyDescription(text) ==
    LET d == toLowerCase(text)
    IN  IF includesAny(d, clientIncomeKeywords)
        THEN LET r == FirstMatch(d, ClientIncomeRules, 1,
                                 [category |-> "Salary", subcategory |-> "Salary"])
             IN  [type |-> "income", category |-> r.category,
                  subcategory |-> r.subcategory]
        ELSE LET r == FirstMatch(d, ClientExpenseRules, 1,
                                 [category |-> "Other", subcategory |-> "Other"])
             IN  [type |-> "expense", category |-> r.category,
                  subcategory |-> r.subcategory]

(***************************************************************************)
(* SpecClassify: the classifiers on one description.                        *)
(***************************************************************************)
\* Words a description is made of: keywords of every group, in mixed case,
\* words that contain a keyword inside another word, and unknown words.
Vocabulary ==
    { <<"S","a","l","a","r","y">>, <<"d","i","v","i","d","e","n","d">>, <<"i","n","c","o","m","e">>, <<"r","e","f","u","n","d">>, <<"S","I","P">>, <<"m","u","t","u","a","l">>,
      <<"S","t","o","c","k","s">>, <<"f","d">>, <<"r","d">>, <<"a","i","f">>, <<"i","n","v","e","s","t">>, <<"g","r","o","c","e","r","y">>, <<"F","o","o","d">>,
      <<"r","e","n","t">>, <<"l","o","a","n">>, <<"t","u","i","t","i","o","n">>, <<"t","a","x","i">>, <<"m","o","v","i","e">>, <<"d","o","c","t","o","r">>, <<"w","a","t","e","r">>,
      <<"m","i","s","c">>, <<"g","o","s","s","i","p">> }

\* words[1] + ' ' + words[2] + ...
RECURSIVE JoinWords(_)
JoinWords(words) ==
    IF Len(words) = 0 THEN <<>>
    ELSE IF Len(words) = 1 THEN words[1]
    ELSE words[1] \o <<" ">> \o JoinWords(Tail(words))

\* Descriptions made of blanks only.
WhitespaceOnly == { <<" ">>, <<" ", " ">> }

Descriptions ==
    UNION { { JoinWords(ws) : ws \in [1..n -> Vocabulary] } : n \in 0..MaxWords }
        \cup WhitespaceOnly

NoResult == [type |-> undefined, category |-> undefined, subcategory |-> undefined]

\* No storage operation made (the value of result), no App running.
NoOperation == [op |-> "none", error |-> "none"]

IdleStore ==
    /\ session = FALSE
    /\ appTransactions = <<>>
    /\ storedTransactions = <<>>
    /\ nextId = 0
    /\ result = NoOperation
    /\ calls = <<>>

\* No budget operation made (the value of saved), no budget application.
NoSave == [month |-> <<>>, entries |-> <<>>]

IdleBudget ==
    /\ app = "idle"
    /\ currentDate = <<>>
    /\ budgets = <<>>
    /\ stored = <<>>
    /\ saved = NoSave

\* No calculation in progress.
IdleCalc ==
    /\ arg = <<>>
    /\ out = <<>>
    /\ fpc = "idle"

IdleServe ==
    /\ openaiApiKey = FALSE
    /\ transactions = <<>>
    /\ categorizedTransactions = <<>>
    /\ i = 0
    /\ pc = "idle"
    /\ fetched = <<>>
    /\ replies = <<>>
    /\ status = 0

InitClassify ==
    /\ IdleServe
    /\ IdleBudget
    /\ IdleStore
    /\ IdleCalc
    /\ description \in Descriptions
    /\ classified = NoResult
    /\ cpc = "input"

\* One call of the map callback on a transaction with this description.
Classify ==
    /\ cpc = "input"
    /\ LET t == [id |-> 1, description |-> description, amount |-> 100,
                 category |-> undefined, subcategory |-> undefined,
                 type |-> "expense"]
           r == categorizeTransactionsFallback(<<t>>)[1]
       IN  classified' = [type |-> r.type, category |-> r.category,
                          subcategory |-> r.subcategory]
    /\ cpc' = "done"
    /\ UNCHANGED << openaiApiKey, transactions, categorizedTransactions, i, pc,
                    fetched, replies, status, description, calcVars,
                    budgetVars,
                    storeVars >>

\* One call of the client's categorizeTransactionFallback on a transaction
\* with this description.
ClassifyClient ==
    /\ cpc = "input"
    /\ classified' = ClientClassifyDescription(description)
    /\ cpc' = "doneClient"
    /\ UNCHANGED << openaiApiKey, transactions, categorizedTransactions, i, pc,
                    fetched, replies, status, description, calcVars,
                    budgetVars,
                    storeVars >>

NextClassify == Classify \/ ClassifyClient

SpecClassify == InitClassify /\ [][NextClassify]_vars

(***************************************************************************)
(* categorizeTransactions: the AI-assisted path.                            *)
(***************************************************************************)
\* t => !t.category || t.category === 'Uncategorized'
IsUncategorized(t) ==
    t.category = undefined \/ t.category = "" \/ t.category = "Uncategorized"

\* transactions.filter(IsUncategorized)
uncategorizedTransactions(txs) == SelectSeq(txs, IsUncategorized)

\* Array.prototype.slice(from, to), 0-based, to exclusive and clipped
slice(s, from, to) ==
    SubSeq(s, from + 1, IF to < Len(s) THEN to ELSE Len(s))

\* list.findIndex(t => t.id === id), 1-based; 0 stands for -1
findIndex(list, id) ==
    IF \E k \in 1..Len(list) : list[k].id = id
    THEN CHOOSE k \in 1..Len(list) :
            list[k].id = id /\ \A j \in 1..(k - 1) : list[j].id # id
    ELSE 0

\* categorizations[index], index 0-based: undefined past the end of the array
EntryAt(categorizations, index) ==
    IF index < Len(categorizations)
    THEN categorizations[index + 1]
    ELSE [json |-> "undefined", category |-> undefined,
          subcategory |-> undefined, type |-> undefined]

\* if (categorizations[index]): null and undefined are falsy, an object is truthy
Truthy(entry) == entry.json = "object"

\* { ...old, category, subcategory, type: entry.type || old.type }
Merge(old, entry) ==
    [old EXCEPT !.category = entry.category,
                !.subcategory = entry.subcategory,
                !.type = IF entry.type \in {undefined, ""} THEN @ ELSE entry.type]

\* The result written at the position of the batch instead of the position
\* found by id.
ApplyCategorization_ByPosition(list, transaction, index, categorizations) ==
    IF Truthy(EntryAt(categorizations, index)) /\ index + 1 <= Len(list)
    THEN [list EXCEPT ![index + 1] =
              Merge(transaction, EntryAt(categorizations, index))]
    ELSE list

\* The body of batch.forEach((transaction, index) => ...)
ApplyCategorization(list, transaction, index, categorizations) ==
    IF Truthy(EntryAt(categorizations, index))
    THEN LET transactionIndex == findIndex(list, transaction.id)
         IN  IF transactionIndex # 0
             THEN [list EXCEPT ![transactionIndex] =
                       Merge(@, EntryAt(categorizations, index))]
             ELSE list
    ELSE list

\* batch.forEach from element index on
RECURSIVE ForEach(_, _, _, _)
ForEach(list, batch, index, categorizations) ==
    IF index >= Len(batch)
    THEN list
    ELSE ForEach(ApplyCategorization(list, batch[index + 1], index, categorizations),
                 batch, index + 1, categorizations)

\* A failed batch is sent again: i advances only after a parsed reply.
NextIndex_RetryFailed(index, kind) ==
    IF kind = "array" THEN index + batchSize ELSE index

\* i += batchSize, reached after the body, after `continue` and after the catch
NextIndex(index, kind) == index + batchSize

\* A failed batch ends the loop.
LoopContinues_StopOnFailure(index, n, kind) ==
    kind = "array" /\ index < n

\* i < uncategorizedTransactions.length, evaluated after every kind of reply
LoopContinues(index, n, kind) == index < n

(***************************************************************************)
(* Requests and replies of the external classifier.                         *)
(***************************************************************************)
\* Request bodies are built from these transactions.
TxTemplates ==
    << [description |-> <<"S","I","P">>, amount |-> 500, category |-> undefined,
        subcategory |-> undefined, type |-> "expense"],
       [description |-> <<"G","r","o","c","e","r","y">>, amount |-> 40, category |-> "Uncategorized",
        subcategory |-> undefined, type |-> "expense"],
       [description |-> <<"s","a","l","a","r","y">>, amount |-> 3000, category |-> "",
        subcategory |-> "", type |-> "expense"],
       [description |-> <<"r","e","n","t">>, amount |-> 900, category |-> "Rental",
        subcategory |-> "House Rent", type |-> "expense"],
       [description |-> <<>>, amount |-> 7, category |-> undefined,
        subcategory |-> undefined, type |-> "expense"],
       [description |-> <<"s","a","l","a","r","y">>, amount |-> 900, category |-> "Rental",
        subcategory |-> "House Rent", type |-> "expense"] >>

\* A request body repeats one of these sequences of templates.
InputPatterns ==
    { <<1>>, <<2>>, <<3>>, <<4>>, <<5>>, <<6>>, <<1, 4>>, <<4, 2>>, <<2, 3>>, <<5, 1>>,
      <<6, 2>> }

\* The k-th element of a pattern repeated without end
Cycle(pattern, k) == pattern[((k - 1) % Len(pattern)) + 1]

\* n transactions with ids 1..n
MakeTransactions(pattern, n) ==
    [k \in 1..n |->
        LET t == TxTemplates[Cycle(pattern, k)]
        IN  [id |-> k, description |-> t.description, amount |-> t.amount,
             category |-> t.category, subcategory |-> t.subcategory,
             type |-> t.type]]

\* Entries of the array the AI returns.
AIEntries ==
    << [json |-> "object", category |-> "Savings", subcategory |-> "SIPs",
        type |-> "expense"],
       [json |-> "object", category |-> "Salary", subcategory |-> "Bonus",
        type |-> "income"],
       [json |-> "object", category |-> "Crypto", subcategory |-> "Coins",
        type |-> "expense"],
       [json |-> "object", category |-> undefined, subcategory |-> undefined,
        type |-> undefined],
       [json |-> "null", category |-> undefined, subcategory |-> undefined,
        type |-> undefined] >>

\* A parsed array repeats one of these sequences of entries.
ReplyPatterns ==
    { <<1>>, <<4>>, <<1, 2>>, <<1, 3>>, <<4, 1>>, <<1, 5>> }

MakeReply(pattern, n) == [k \in 1..n |-> AIEntries[Cycle(pattern, k)]]

(***************************************************************************)
(* Spec: the serve handler on { transactions, action: 'categorize' }.       *)
(***************************************************************************)
IdleClassify ==
    /\ description = <<>>
    /\ classified = NoResult
    /\ cpc = "idle"

Init ==
    /\ openaiApiKey \in BOOLEAN
    /\ \E n \in 0..MaxTx : \E p \in InputPatterns :
          transactions = MakeTransactions(p, n)
    /\ categorizedTransactions = <<>>
    /\ i = 0
    /\ pc = "serve"
    /\ fetched = <<>>
    /\ replies = <<>>
    /\ status = 0
    /\ IdleClassify
    /\ IdleCalc
    /\ IdleBudget
    /\ IdleStore

\* if (!openaiApiKey) { if (action === 'categorize') return fallback }
ServeWithoutKey ==
    /\ pc = "serve"
    /\ ~openaiApiKey
    /\ categorizedTransactions' = categorizeTransactionsFallback(transactions)
    /\ status' = 200
    /\ pc' = "responded"
    /\ UNCHANGED << openaiApiKey, transactions, i, fetched, replies,
                    description, classified, cpc, calcVars,
                    budgetVars,
                    storeVars >>

\* categorizeTransactions up to its first await: the filter, the early return,
\* the copy of the list.
CategorizeBegin ==
    /\ pc = "serve"
    /\ openaiApiKey
    /\ categorizedTransactions' = transactions
    /\ i' = 0
    /\ IF Len(uncategorizedTransactions(transactions)) = 0
       THEN pc' = "responded" /\ status' = 200
       ELSE pc' = "loop" /\ status' = 0
    /\ UNCHANGED << openaiApiKey, transactions, fetched, replies,
                    description, classified, cpc, calcVars,
                    budgetVars,
                    storeVars >>

\* One iteration of the for loop: the batch is sent, the reply handled, and
\* the loop either goes on or the function returns and the handler responds.
Iteration(reply) ==
    LET u == uncategorizedTransactions(transactions)
        batch == slice(u, i, i + batchSize)
    IN  /\ pc = "loop"
        /\ fetched' = Append(fetched, [k \in 1..Len(batch) |-> batch[k].id])
        /\ replies' = Append(replies, reply)
        /\ categorizedTransactions' =
              IF reply.kind = "array"
              THEN ForEach(categorizedTransactions, batch, 0, reply.body)
              ELSE categorizedTransactions
        /\ i' = NextIndex(i, reply.kind)
        /\ IF LoopContinues(NextIndex(i, reply.kind), Len(u), reply.kind)
           THEN pc' = "loop" /\ status' = 0
           ELSE pc' = "responded" /\ status' = 200
        /\ UNCHANGED << openaiApiKey, transactions, description, classified, cpc, calcVars,
                    budgetVars,
                    storeVars >>

\* fetch rejects (network error): caught by the catch of the iteration
FetchThrows == Iteration([kind |-> "throw", body |-> <<>>])

\* !response.ok: logged, continue
FetchNotOk == Iteration([kind |-> "notOk", body |-> <<>>])

\* response.json() or JSON.parse throws, or data.choices[0] is missing, or the
\* parsed value is null: caught before any entry is applied
FetchBadBody == Iteration([kind |-> "badBody", body |-> <<>>])

\* The content parses to an array: as long as the batch, one shorter or one
\* longer.
FetchArray ==
    /\ pc = "loop"
    /\ LET u == uncategorizedTransactions(transactions)
           m == Len(slice(u, i, i + batchSize))
       IN  \E p \in ReplyPatterns : \E n \in {m - 1, m, m + 1} :
              Iteration([kind |-> "array", body |-> MakeReply(p, n)])

Next ==
    \/ ServeWithoutKey
    \/ CategorizeBegin
    \/ FetchThrows
    \/ FetchNotOk
    \/ FetchBadBody
    \/ FetchArray

Spec == Init /\ [][Next]_vars

(***************************************************************************)
(* Vocabulary of the properties.                                            *)
(***************************************************************************)
\* The categorize request took the AI-assisted path and has been answered.
Returned == openaiApiKey /\ pc = "responded"

\* ceil(n / batchSize)
NumBatches(n) == (n + batchSize - 1) \div batchSize

\* The b-th batch of the request, b = 1, 2, ...
BatchOf(b) ==
    slice(uncategorizedTransactions(transactions), (b - 1) * batchSize, b * batchSize)

IdsOf(txs) == [k \in 1..Len(txs) |-> txs[k].id]

\* The ids sent so far, request after request.
RECURSIVE SentIds(_)
SentIds(requests) ==
    IF requests = <<>> THEN <<>> ELSE Head(requests) \o SentIds(Tail(requests))

\* The position of a transaction in the request body.
PositionOf(id) == findIndex(transactions, id)

Failed(b) == replies[b].kind \in {"throw", "notOk"}

\* An entry with all of category, subcategory and type.
Complete(entry) ==
    /\ entry.json = "object"
    /\ entry.category # undefined
    /\ entry.subcategory # undefined
    /\ entry.type # undefined

\* The reply to the b-th request is unparseable, of the wrong length, or has
\* an entry with a field missing.
Malformed(b) ==
    \/ replies[b].kind = "badBody"
    \/ /\ replies[b].kind = "array"
       /\ \/ Len(replies[b].body) # Len(fetched[b])
          \/ \E j \in 1..Len(replies[b].body) : ~Complete(replies[b].body[j])

TaxonomyKeys == DOMAIN EXPENSE_CATEGORIES \cup DOMAIN INCOME_CATEGORIES

SameClassification(a, b) ==
    /\ a.category = b.category
    /\ a.subcategory = b.subcategory
    /\ a.type = b.type

(***************************************************************************)
(* C1. categorizeTransactions returns a list as long as its input whose     *)
(* k-th element has the id of the k-th input element, whatever each fetch   *)
(* produced: nothing is dropped, duplicated or reordered.                   *)
(***************************************************************************)
C1_SameLengthSameIds ==
    (openaiApiKey /\ pc \in {"loop", "responded"}) =>
        /\ Len(categorizedTransactions) = Len(transactions)
        /\ \A k \in 1..Len(transactions) :
              categorizedTransactions[k].id = transactions[k].id

\* Two batches or more, a thrown fetch and a parsed array among the replies,
\* an already categorized transaction between the others, something changed.
C1_Witness ==
    /\ Returned
    /\ Len(replies) >= 2
    /\ \E b \in 1..Len(replies) : replies[b].kind = "throw"
    /\ \E b \in 1..Len(replies) : replies[b].kind = "array"
    /\ \E k \in 1..Len(transactions) : ~IsUncategorized(transactions[k])
    /\ \E k \in 1..Len(transactions) :
          categorizedTransactions[k].category # transactions[k].category

(***************************************************************************)
(* C2. Every transaction of a batch whose fetch threw or returned a non-OK  *)
(* status is returned as the keyword fallback classifies it, and none of    *)
(* them is still without a category or 'Uncategorized'.                     *)
(***************************************************************************)
C2_FailedBatchFallsBack ==
    Returned =>
        \A b \in 1..Len(replies) :
            Failed(b) =>
                \A j \in 1..Len(fetched[b]) :
                    LET k == PositionOf(fetched[b][j])
                    IN  /\ categorizedTransactions[k] =
                              ClassifyTransaction(transactions[k])
                        /\ ~IsUncategorized(categorizedTransactions[k])

(***************************************************************************)
(* C3. No entry of a malformed reply (unparseable, an array shorter or      *)
(* longer than the batch, an entry with a field missing) is applied to a    *)
(* transaction: each transaction of that batch is returned either untouched *)
(* or as the fallback classifies it, never carrying an entry of the reply.  *)
(***************************************************************************)
C3_MalformedReplyNotApplied ==
    Returned =>
        \A b \in 1..Len(replies) :
            Malformed(b) =>
                \A j \in 1..Len(fetched[b]) :
                    LET k == PositionOf(fetched[b][j])
                    IN  \/ categorizedTransactions[k] = transactions[k]
                        \/ categorizedTransactions[k] =
                              ClassifyTransaction(transactions[k])

(***************************************************************************)
(* C4. A transaction that took its category from an AI entry has a category *)
(* that is a key of the expense or the income taxonomy; an entry whose      *)
(* category is not in the taxonomy gives Other / Miscellaneous.             *)
(***************************************************************************)
C4_AICategoryInTaxonomy ==
    Returned =>
        \A b \in 1..Len(replies) :
            replies[b].kind = "array" =>
                \A j \in 1..Len(fetched[b]) :
                    LET e == EntryAt(replies[b].body, j - 1)
                        t == categorizedTransactions[PositionOf(fetched[b][j])]
                    IN  (Truthy(e) /\ e.category # undefined) =>
                            /\ t.category \in TaxonomyKeys
                            /\ e.category \notin TaxonomyKeys =>
                                  /\ t.category = "Other"
                                  /\ t.subcategory = "Miscellaneous"

(***************************************************************************)
(* C5. A failed batch does not stop the loop: when the function returns,    *)
(* every batch has been sent, whatever the replies to the batches before    *)
(* it were, and every transaction that was given an entry of a parsed reply *)
(* still carries that entry's category and subcategory.                     *)
(***************************************************************************)
C5_FailureDoesNotAbort ==
    Returned =>
        LET nb == NumBatches(Len(uncategorizedTransactions(transactions)))
        IN  /\ Len(replies) = nb
            /\ Len(fetched) = nb
            /\ \A b \in 1..nb :
                  /\ fetched[b] = IdsOf(BatchOf(b))
                  /\ replies[b].kind = "array" =>
                        \A j \in 1..Len(fetched[b]) :
                            LET e == EntryAt(replies[b].body, j - 1)
                                t == categorizedTransactions[PositionOf(fetched[b][j])]
                            IN  Truthy(e) =>
                                    /\ t.category = e.category
                                    /\ t.subcategory = e.subcategory

\* Three batches: the first merged, the second thrown, the third merged.
C5_Witness ==
    /\ Returned
    /\ Len(replies) = 3
    /\ replies[1].kind = "array"
    /\ replies[2].kind = "throw"
    /\ replies[3].kind = "array"
    /\ Truthy(EntryAt(replies[1].body, 0))
    /\ Truthy(EntryAt(replies[3].body, 0))
    /\ categorizedTransactions[PositionOf(fetched[1][1])].category = "Savings"
    /\ transactions[PositionOf(fetched[1][1])].category # "Savings"

(***************************************************************************)
(* C6. Without an API key the categorize request makes no external call     *)
(* and answers 200 with one result per transaction, each classified by the  *)
(* keyword fallback; and that is also the outcome, for the transactions     *)
(* the request was to categorize, when every external request fails.        *)
(***************************************************************************)
C6_NoKeySameAsFailure ==
    pc = "responded" =>
        /\ ~openaiApiKey =>
              /\ fetched = <<>>
              /\ status = 200
              /\ Len(categorizedTransactions) = Len(transactions)
              /\ \A k \in 1..Len(transactions) :
                    categorizedTransactions[k] = ClassifyTransaction(transactions[k])
        /\ (openaiApiKey /\ \A b \in 1..Len(replies) : Failed(b)) =>
              /\ status = 200
              /\ Len(categorizedTransactions) = Len(transactions)
              /\ \A k \in 1..Len(transactions) :
                    IsUncategorized(transactions[k]) =>
                        SameClassification(categorizedTransactions[k],
                                           ClassifyTransaction(transactions[k]))

(***************************************************************************)
(* C7. Each uncategorized transaction is sent in exactly one request, no    *)
(* request carries more than 10 transactions, nothing is sent twice, and    *)
(* the call makes exactly ceil(n / 10) requests.                            *)
(***************************************************************************)
C7_OneRequestPerBatch ==
    (openaiApiKey /\ pc \in {"loop", "responded"}) =>
        LET u == uncategorizedTransactions(transactions)
            nb == NumBatches(Len(u))
            sent == SentIds(fetched)
        IN  /\ Len(fetched) <= nb
            /\ \A b \in 1..Len(fetched) :
                  Len(fetched[b]) >= 1 /\ Len(fetched[b]) <= 10
            /\ \A k \in 1..Len(sent) : \A j \in 1..(k - 1) : sent[j] # sent[k]
            /\ \A k \in 1..Len(sent) : sent[k] = u[k].id
            /\ pc = "responded" => (Len(fetched) = nb /\ Len(sent) = Len(u))

\* 21 uncategorized transactions in requests of 10, 10 and 1, a failed one
\* among them.
C7_Witness ==
    /\ Returned
    /\ Len(fetched) = 3
    /\ Len(fetched[1]) = 10
    /\ Len(fetched[3]) = 1
    /\ \E b \in 1..Len(replies) : replies[b].kind = "notOk"
    /\ \E b \in 1..Len(replies) : replies[b].kind = "badBody"

(***************************************************************************)
(* Vocabulary of the classifier's properties.                               *)
(***************************************************************************)
\* Some keyword of the investment / savings checks occurs in d.
HasSavingsKeyword(d) ==
    \E k \in 1..Len(SavingsRules) : includesAny(d, SavingsRules[k].keywords)

\* Every list of keywords the classifier tests.
KeywordGroups ==
    <<incomeKeywords>>
        \o [k \in 1..Len(IncomeRules) |-> IncomeRules[k].keywords]
        \o [k \in 1..Len(ExpenseRules) |-> ExpenseRules[k].keywords]

\* The same lists of keywords match in a and in b.
SameGroupsMatch(a, b) ==
    \A k \in 1..Len(KeywordGroups) :
        includesAny(a, KeywordGroups[k]) <=> includesAny(b, KeywordGroups[k])

\* The words of s, split at the spaces.
RECURSIVE SplitWords(_)
SplitWords(s) ==
    IF \E k \in 1..Len(s) : s[k] = " "
    THEN LET k == CHOOSE k \in 1..Len(s) :
                     s[k] = " " /\ \A j \in 1..(k - 1) : s[j] # " "
         IN  <<SubSeq(s, 1, k - 1)>> \o SplitWords(SubSeq(s, k + 1, Len(s)))
    ELSE <<s>>

Reverse(s) == [k \in 1..Len(s) |-> s[Len(s) + 1 - k]]

\* The description with its words in the opposite order.
WordsReversed(s) == JoinWords(Reverse(SplitWords(s)))

(***************************************************************************)
(* C8. For every description the classifier returns type income or expense  *)
(* and a (category, subcategory) pair in which the subcategory is listed    *)
(* under the category in the taxonomy tree of the returned type, or the     *)
(* pair Other / Miscellaneous.                                              *)
(***************************************************************************)
C8_ClassifierInTaxonomy ==
    cpc = "done" =>
        /\ classified.type \in {"income", "expense"}
        /\ LET tree == IF classified.type = "income"
                       THEN INCOME_CATEGORIES ELSE EXPENSE_CATEGORIES
           IN  \/ /\ classified.category \in DOMAIN tree
                  /\ classified.subcategory \in tree[classified.category]
               \/ /\ classified.category = "Other"
                  /\ classified.subcategory = "Miscellaneous"

(***************************************************************************)
(* C9. A description with an income keyword and a savings keyword is        *)
(* classified as income with an income category, wherever the keywords      *)
(* stand; and the description with its words in the opposite order gets     *)
(* the same result whenever the same keyword lists match in it.             *)
(***************************************************************************)
C9_IncomeBeatsSavings ==
    LET d == toLowerCase(description)
        r == WordsReversed(description)
    IN  (cpc = "done" /\ isIncome(d) /\ HasSavingsKeyword(d)) =>
            /\ classified.type = "income"
            /\ classified.category \in DOMAIN INCOME_CATEGORIES
            /\ SameGroupsMatch(d, toLowerCase(r)) =>
                  ClassifyDescription(r) = classified

\* The savings keyword stands before the income keyword.
C9_Witness ==
    /\ cpc = "done"
    /\ description = <<"S","I","P"," ","S","a","l","a","r","y">>
    /\ classified.type = "income"
    /\ classified.category = "Salary"

(***************************************************************************)
(* C10. A description with a savings keyword and no income keyword is       *)
(* classified Savings / expense, also when it contains a living-expense     *)
(* keyword or a keyword of another expense group.                           *)
(***************************************************************************)
C10_SavingsBeforeExpenses ==
    LET d == toLowerCase(description)
    IN  (cpc = "done" /\ HasSavingsKeyword(d) /\ ~isIncome(d)) =>
            /\ classified.category = "Savings"
            /\ classified.type = "expense"

(***************************************************************************)
(* C11. A description in which no keyword rule of a fallback classifier     *)
(* matches, the empty and the blank description included, is classified     *)
(* Other / Miscellaneous / expense by that classifier, the server's as      *)
(* well as the client's.                                                    *)
(***************************************************************************)
NoServerRuleMatches(d) ==
    /\ ~isIncome(d)
    /\ \A k \in 1..Len(ExpenseRules) : ~includesAny(d, ExpenseRules[k].keywords)

NoClientRuleMatches(d) ==
    /\ ~includesAny(d, clientIncomeKeywords)
    /\ \A k \in 1..Len(ClientExpenseRules) :
          ~includesAny(d, ClientExpenseRules[k].keywords)

OtherMiscellaneous ==
    [type |-> "expense", category |-> "Other", subcategory |-> "Miscellaneous"]

C11_NoMatchIsOtherMiscellaneous ==
    LET d == toLowerCase(description)
    IN  /\ (cpc = "done" /\ NoServerRuleMatches(d)) => classified = OtherMiscellaneous
        /\ (cpc = "doneClient" /\ NoClientRuleMatches(d)) =>
              classified = OtherMiscellaneous

(***************************************************************************)
(* Dates.  A Date is [mi, d, t]: mi = 12 * year + month (0 = January), d    *)
(* the day of the month, t the time of day; t = 0 is 00:00:00.000, t = 2     *)
(* is 23:59:59.999 and t = 1 any instant between them.                      *)
(***************************************************************************)
IsLeapYear(y) == (y % 4 = 0 /\ y % 100 # 0) \/ y % 400 = 0

getDaysInMonth(mi) ==
    CASE mi % 12 = 1 -> IF IsLeapYear(mi \div 12) THEN 29 ELSE 28
      [] mi % 12 \in {3, 5, 8, 10} -> 30
      [] OTHER -> 31

\* date.getTime(): the instant as a number; Date comparison (<=, >=, <, >)
\* compares these.
getTime(date) == (date.mi * 32 + date.d) * 3 + date.t

\* Variants of the month bounds that miss or overrun a boundary instant.
startOfMonth_AfterMidnight(date) == [mi |-> date.mi, d |-> 1, t |-> 1]

endOfMonth_StartOfLastDay(date) ==
    [mi |-> date.mi, d |-> getDaysInMonth(date.mi), t |-> 0]

\* date-fns startOfMonth / endOfMonth.
startOfMonth(date) == [mi |-> date.mi, d |-> 1, t |-> 0]

endOfMonth(date) == [mi |-> date.mi, d |-> getDaysInMonth(date.mi), t |-> 2]

\* The months the sample transactions are dated in: January to March 2024.
Months == { 12 * 2024 + m : m \in 0..2 }

MidMonth(mi) == [mi |-> mi, d |-> 15, t |-> 1]

\* sum + t.amount over a list
RECURSIVE SumAmounts(_)
SumAmounts(txs) ==
    IF txs = <<>> THEN 0 ELSE Head(txs).amount + SumAmounts(Tail(txs))

\* All lists of at most n elements of S.
ListsUpTo(S, n) == UNION { [1..k -> S] : k \in 0..n }

(***************************************************************************)
(* The savings / net-worth computations.                                    *)
(***************************************************************************)
investmentKeywords ==
    << <<"s","i","p">>, <<"m","u","t","u","a","l"," ","f","u","n","d">>, <<"m","f">>, <<"s","t","o","c","k">>, <<"s","t","o","c","k","s">>, <<"e","q","u","i","t","y">>, <<"s","h","a","r","e","s">>,
       <<"f","d">>, <<"f","i","x","e","d"," ","d","e","p","o","s","i","t">>, <<"r","d">>, <<"r","e","c","u","r","r","i","n","g"," ","d","e","p","o","s","i","t">>, <<"a","i","f">>,
       <<"a","l","t","e","r","n","a","t","i","v","e"," ","i","n","v","e","s","t","m","e","n","t">> >>

\* investmentKeywords.some(keyword => description.includes(keyword) ||
\*                                    subcategory.includes(keyword))
IsInvestment(t) ==
    \E k \in 1..Len(investmentKeywords) :
        \/ includes(toLowerCase(t.description), investmentKeywords[k])
        \/ includes(toLowerCase(t.subcategory), investmentKeywords[k])

\* The filter of the Dashboard's and the SavingsDashboard's savings lists.
IsWealthBuilding(t) ==
    /\ t.type = "expense"
    /\ (t.category = "Savings" \/ IsInvestment(t))

\* A ratio (n / d) * 100 kept exact as a fraction; 0 is 0 / 1.
Percent(n, d) == [num |-> n * 100, den |-> d]

ZeroPercent == [num |-> 0, den |-> 1]

SamePercent(p, q) == p.num * q.den = q.num * p.den

\* analyzeFinancialData: totals, netWorth and savingsRate of the server.
analyzeFinancialData(txs) ==
    LET totalIncome == SumAmounts(SelectSeq(txs, LAMBDA t : t.type = "income"))
        totalExpenses == SumAmounts(SelectSeq(txs, LAMBDA t : t.type = "expense"))
        savingsTransactions ==
            SumAmounts(SelectSeq(txs, LAMBDA t : t.type = "expense"
                                                 /\ t.category = "Savings"))
    IN  [totalIncome |-> totalIncome,
         totalExpenses |-> totalExpenses,
         netWorth |-> savingsTransactions,
         savingsRate |-> IF totalIncome > 0
                         THEN Percent(savingsTransactions, totalIncome)
                         ELSE ZeroPercent]

\* calculateSavingsProgress of utils/calculations.ts
calculateSavingsProgress(txs) ==
    SumAmounts(SelectSeq(txs, LAMBDA t : t.type = "expense"
                                         /\ t.category = "Savings"))

\* calculateKPIs of the Dashboard: netWorth and savingsRatio.
calculateKPIs(txs, selectedMonth) ==
    LET allSavingsTransactions ==
            SelectSeq(txs, LAMBDA t :
                ~(t.type # "expense"
                  \/ getTime(t.date) > getTime(endOfMonth(selectedMonth)))
                /\ (t.category = "Savings" \/ IsInvestment(t)))
        netWorth == SumAmounts(allSavingsTransactions)
        totalIncome == SumAmounts(SelectSeq(txs, LAMBDA t : t.type = "income"))
        totalSavings == SumAmounts(allSavingsTransactions)
    IN  [netWorth |-> netWorth,
         savingsRatio |-> IF totalIncome > 0
                          THEN Percent(totalSavings, totalIncome)
                          ELSE ZeroPercent]

\* The totals of the SavingsDashboard: totalSavings and overallSavingsRate.
SavingsDashboard(txs) ==
    LET savingsTransactions == SelectSeq(txs, IsWealthBuilding)
        totalIncome == SumAmounts(SelectSeq(txs, LAMBDA t : t.type = "income"))
        totalSavings == SumAmounts(savingsTransactions)
    IN  [totalSavings |-> totalSavings,
         overallSavingsRate |-> IF totalIncome > 0
                                THEN Percent(totalSavings, totalIncome)
                                ELSE ZeroPercent]

(***************************************************************************)
(* SpecSavings: the four savings computations on one transaction list.      *)
(***************************************************************************)
\* What a sample transaction is, apart from its date.
SavingsKinds ==
    { [type |-> "income", category |-> "Salary", subcategory |-> <<"S","a","l","a","r","y">>,
       description |-> <<"S","a","l","a","r","y">>, amount |-> 1000],
      [type |-> "expense", category |-> "Savings", subcategory |-> <<"S","I","P","s">>,
       description |-> <<>>, amount |-> 200],
      [type |-> "expense", category |-> "Other", subcategory |-> <<"M","i","s","c","e","l","l","a","n","e","o","u","s">>,
       description |-> <<"S","t","o","c","k","s">>, amount |-> 150],
      [type |-> "expense", category |-> "Living Expenses", subcategory |-> <<"G","r","o","c","e","r","y">>,
       description |-> <<"g","r","o","c","e","r","y">>, amount |-> 50],
      [type |-> "expense", category |-> "Debt", subcategory |-> <<"H","o","m","e"," ","L","o","a","n">>,
       description |-> <<"l","o","a","n">>, amount |-> 300] }

\* Mid-month dates, the last instant of January and the first of February.
SavingsDates ==
    { MidMonth(mi) : mi \in Months }
        \cup { [mi |-> 12 * 2024, d |-> 31, t |-> 2],
               [mi |-> 12 * 2024 + 1, d |-> 1, t |-> 0] }

SavingsTransactions ==
    { [type |-> k.type, category |-> k.category, subcategory |-> k.subcategory,
       description |-> k.description, amount |-> k.amount, date |-> dt] :
      k \in SavingsKinds, dt \in SavingsDates }

InitSavings ==
    /\ IdleServe
    /\ IdleBudget
    /\ IdleStore
    /\ IdleClassify
    /\ \E txs \in ListsUpTo(SavingsTransactions, MaxCalcTx) : \E mi \in Months :
          arg = [transactions |-> txs, selectedMonth |-> MidMonth(mi)]
    /\ out = <<>>
    /\ fpc = "input"

\* The server's analysis, calculateSavingsProgress, the Dashboard's KPIs and
\* the SavingsDashboard's totals over the same transactions.
ComputeSavings ==
    /\ fpc = "input"
    /\ out' = [server |-> analyzeFinancialData(arg.transactions),
               progress |-> calculateSavingsProgress(arg.transactions),
               dashboard |-> calculateKPIs(arg.transactions, arg.selectedMonth),
               savingsDashboard |-> SavingsDashboard(arg.transactions)]
    /\ fpc' = "savings"
    /\ UNCHANGED << openaiApiKey, transactions, categorizedTransactions, i, pc,
                    fetched, replies, status, description, classified, cpc, arg,
                    budgetVars,
                    storeVars >>

NextSavings == ComputeSavings

SpecSavings == InitSavings /\ [][NextSavings]_vars

(***************************************************************************)
(* C12. Every savings total uses the same wealth-building predicate: with   *)
(* the Dashboard's as-of month at or after every transaction, the server's  *)
(* netWorth, calculateSavingsProgress, the Dashboard's netWorth and the     *)
(* SavingsDashboard's totalSavings are equal.                               *)
(***************************************************************************)
AsOfAfterAll ==
    \A k \in 1..Len(arg.transactions) :
        getTime(arg.transactions[k].date) <= getTime(endOfMonth(arg.selectedMonth))

C12_SameSavingsTotalEverywhere ==
    (fpc = "savings" /\ AsOfAfterAll) =>
        /\ out.server.netWorth = out.dashboard.netWorth
        /\ out.progress = out.dashboard.netWorth
        /\ out.savingsDashboard.totalSavings = out.dashboard.netWorth

(***************************************************************************)
(* utils/calculations.ts: calculateMonthlyTotals and getBudgetVariance.     *)
(***************************************************************************)
\* format(date, 'yyyy-MM'): the year and the month number (1 = January).
formatYearMonth(date) == << date.mi \div 12, (date.mi % 12) + 1 >>

\* ['Salary', 'Dividend', 'Rental Income', 'Business', 'Other']
incomeBudgetCategories == {"Salary", "Dividend", "Rental Income", "Business", "Other"}

calculateMonthlyTotals(txs, budgetList, month) ==
    LET monthStart == startOfMonth(month)
        monthEnd == endOfMonth(month)
        monthStr == formatYearMonth(month)
        monthlyTransactions ==
            SelectSeq(txs, LAMBDA t : getTime(t.date) >= getTime(monthStart)
                                      /\ getTime(t.date) <= getTime(monthEnd))
        monthlyBudgets == SelectSeq(budgetList, LAMBDA b : b.month = monthStr)
    IN  [month |-> monthStr,
         income |->
            SumAmounts(SelectSeq(monthlyTransactions, LAMBDA t : t.type = "income")),
         expenses |->
            SumAmounts(SelectSeq(monthlyTransactions, LAMBDA t : t.type = "expense")),
         budgetedIncome |->
            SumAmounts(SelectSeq(monthlyBudgets,
                                 LAMBDA b : b.category \in incomeBudgetCategories)),
         budgetedExpenses |->
            SumAmounts(SelectSeq(monthlyBudgets,
                                 LAMBDA b : ~(b.category \in incomeBudgetCategories))) ]

\* A variant without the guard on the budget: a zero budget divides by zero.
getBudgetVariance_Unguarded(actual, budget) ==
    [amount |-> actual - budget,
     percentage |-> Percent(actual - budget, budget),
     isOver |-> actual - budget > 0]

\* getBudgetVariance; a percentage with den = 0 stands for NaN / Infinity.
getBudgetVariance(actual, budget) ==
    LET amount == actual - budget
    IN  [amount |-> amount,
         percentage |-> IF budget > 0 THEN Percent(amount, budget) ELSE ZeroPercent,
         isOver |-> amount > 0]

(***************************************************************************)
(* SpecTotals: calculateMonthlyTotals on one transaction list and one       *)
(* budget list, for one month or for every month that has a transaction.    *)
(***************************************************************************)
\* The boundary instants around February 2024, and one instant inside it.
TotalsDates ==
    { [mi |-> 12 * 2024, d |-> 31, t |-> 2],
      [mi |-> 12 * 2024 + 1, d |-> 1, t |-> 0],
      MidMonth(12 * 2024 + 1),
      [mi |-> 12 * 2024 + 1, d |-> 29, t |-> 2],
      [mi |-> 12 * 2024 + 2, d |-> 1, t |-> 0] }

TotalsTransactions ==
    { [type |-> ty, amount |-> IF ty = "income" THEN 1000 ELSE 50, date |-> dt] :
      ty \in {"income", "expense"}, dt \in TotalsDates }

\* One budget of February 2024 per category of a set, in a fixed order; the
\* category 'Crypto' is in neither tree of the taxonomy.
BudgetCategories == << "Salary", "Living Expenses", "Other", "Crypto" >>

BudgetAmount(c) ==
    CASE c = "Salary" -> 900 [] c = "Living Expenses" -> 40
      [] c = "Other" -> 7 [] OTHER -> 3

BudgetsOf(cats, month) ==
    LET chosen == SelectSeq(BudgetCategories, LAMBDA c : c \in cats)
    IN  [k \in 1..Len(chosen) |->
            [category |-> chosen[k], amount |-> BudgetAmount(chosen[k]),
             month |-> formatYearMonth(month)]]

BudgetLists ==
    { BudgetsOf(cats, MidMonth(12 * 2024 + 1)) :
        cats \in SUBSET { BudgetCategories[k] : k \in 1..Len(BudgetCategories) } }
      \cup { BudgetsOf({"Salary"}, MidMonth(12 * 2024)) }

InitTotals ==
    /\ IdleServe
    /\ IdleBudget
    /\ IdleStore
    /\ IdleClassify
    /\ \E txs \in ListsUpTo(TotalsTransactions, MaxCalcTx) :
       \E budgetList \in BudgetLists : \E mi \in Months :
          arg = [transactions |-> txs, budgets |-> budgetList,
                 month |-> MidMonth(mi)]
    /\ out = <<>>
    /\ fpc = "input"

\* calculateMonthlyTotals(transactions, budgets, month)
MonthlyTotals ==
    /\ fpc = "input"
    /\ out' = calculateMonthlyTotals(arg.transactions, arg.budgets, arg.month)
    /\ fpc' = "monthlyTotals"
    /\ UNCHANGED << openaiApiKey, transactions, categorizedTransactions, i, pc,
                    fetched, replies, status, description, classified, cpc, arg,
                    budgetVars,
                    storeVars >>

\* The calendar months that contain a transaction.
MonthsWithData(txs) == { txs[k].date.mi : k \in 1..Len(txs) }

\* calculateMonthlyTotals called once for every month that has a transaction.
EveryMonthTotals ==
    /\ fpc = "input"
    /\ out' = [mi \in MonthsWithData(arg.transactions) |->
                 calculateMonthlyTotals(arg.transactions, arg.budgets, MidMonth(mi))]
    /\ fpc' = "everyMonth"
    /\ UNCHANGED << openaiApiKey, transactions, categorizedTransactions, i, pc,
                    fetched, replies, status, description, classified, cpc, arg,
                    budgetVars,
                    storeVars >>

NextTotals == MonthlyTotals \/ EveryMonthTotals

SpecTotals == InitTotals /\ [][NextTotals]_vars

(***************************************************************************)
(* C13. calculateMonthlyTotals returns as income the sum of exactly the     *)
(* income transactions dated in the month, its first and last instant       *)
(* included, and as expenses the same sum over the expense transactions; a  *)
(* transaction dated outside the month adds to neither.                     *)
(***************************************************************************)
InMonth(t, month) == t.date.mi = month.mi

C13_MonthlyTotalsAreTheMonthsSums ==
    fpc = "monthlyTotals" =>
        /\ out.income =
              SumAmounts(SelectSeq(arg.transactions,
                  LAMBDA t : t.type = "income" /\ InMonth(t, arg.month)))
        /\ out.expenses =
              SumAmounts(SelectSeq(arg.transactions,
                  LAMBDA t : t.type = "expense" /\ InMonth(t, arg.month)))

\* A transaction at the last instant of the month is counted, next to one
\* dated outside the month.
C13_Witness ==
    /\ fpc = "monthlyTotals"
    /\ \E k \in 1..Len(arg.transactions) :
          /\ InMonth(arg.transactions[k], arg.month)
          /\ arg.transactions[k].date.d = getDaysInMonth(arg.month.mi)
          /\ arg.transactions[k].date.t = 2
    /\ \E k \in 1..Len(arg.transactions) : ~InMonth(arg.transactions[k], arg.month)
    /\ out.income + out.expenses > 0

(***************************************************************************)
(* C14. budgetedIncome sums exactly the month's budgets whose category is   *)
(* in the income tree, budgetedExpenses exactly those whose category is in  *)
(* the expense tree; a budget whose category is in neither tree counts in   *)
(* neither.                                                                 *)
(***************************************************************************)
BudgetsOfMonth(budgetList, month) ==
    SelectSeq(budgetList, LAMBDA b : b.month = formatYearMonth(month))

C14_BudgetedSplitFollowsTaxonomy ==
    fpc = "monthlyTotals" =>
        /\ out.budgetedIncome =
              SumAmounts(SelectSeq(BudgetsOfMonth(arg.budgets, arg.month),
                  LAMBDA b : b.category \in DOMAIN INCOME_CATEGORIES))
        /\ out.budgetedExpenses =
              SumAmounts(SelectSeq(BudgetsOfMonth(arg.budgets, arg.month),
                  LAMBDA b : b.category \in DOMAIN EXPENSE_CATEGORIES))

(***************************************************************************)
(* C15. Summed over every calendar month that contains a transaction,       *)
(* income + expenses of calculateMonthlyTotals equals the sum of all        *)
(* transaction amounts: no transaction is counted twice or dropped at a     *)
(* month boundary.                                                          *)
(***************************************************************************)
RECURSIVE SumIncomeAndExpenses(_)
SumIncomeAndExpenses(totals) ==
    IF DOMAIN totals = {} THEN 0
    ELSE LET mi == CHOOSE m \in DOMAIN totals : TRUE
         IN  totals[mi].income + totals[mi].expenses
               + SumIncomeAndExpenses([m \in DOMAIN totals \ {mi} |-> totals[m]])

InitVariance ==
    /\ IdleServe
    /\ IdleBudget
    /\ IdleStore
    /\ IdleClassify
    /\ \E actual \in -MaxAmount..MaxAmount : \E budget \in -MaxAmount..MaxAmount :
          arg = [actual |-> actual, budget |-> budget]
    /\ out = <<>>
    /\ fpc = "input"

BudgetVariance ==
    /\ fpc = "input"
    /\ out' = getBudgetVariance(arg.actual, arg.budget)
    /\ fpc' = "variance"
    /\ UNCHANGED << openaiApiKey, transactions, categorizedTransactions, i, pc,
                    fetched, replies, status, description, classified, cpc, arg,
                    budgetVars,
                    storeVars >>

NextVariance == BudgetVariance

SpecVariance == InitVariance /\ [][NextVariance]_vars

(***************************************************************************)
(* C16. getBudgetVariance returns amount = actual - budget, isOver =        *)
(* (amount > 0) and percentage = amount / budget * 100 when budget > 0;     *)
(* with budget = 0 the percentage is exactly 0, never NaN or Infinity.      *)
(***************************************************************************)
C16_VarianceAndZeroBudget ==
    fpc = "variance" =>
        /\ out.amount = arg.actual - arg.budget
        /\ out.isOver = (arg.actual > arg.budget)
        /\ out.percentage.den # 0
        /\ arg.budget > 0 =>
              out.percentage.num * arg.budget
                 = (arg.actual - arg.budget) * 100 * out.percentage.den
        /\ arg.budget = 0 => out.percentage.num = 0

\* A zero budget with a non-zero actual: the division the guard avoids.
C16_Witness ==
    /\ fpc = "variance"
    /\ arg.budget = 0
    /\ arg.actual > 0
    /\ out.percentage = ZeroPercent

(***************************************************************************)
(* The monthly trend series: getMonthsWithData of the Dashboard,            *)
(* calculateMonthlyTrends of the server and last6Months of the earlier      *)
(* Dashboard.                                                               *)
(***************************************************************************)
\* 'yyyy-MM' strings compare as their (year, month) pairs do.
YearMonthLess(a, b) == a[1] < b[1] \/ (a[1] = b[1] /\ a[2] < b[2])

\* Array.prototype.sort() of a set of 'yyyy-MM' strings: ascending.
RECURSIVE SortYearMonths(_)
SortYearMonths(S) ==
    IF S = {} THEN <<>>
    ELSE LET lo == CHOOSE a \in S : \A b \in S \ {a} : YearMonthLess(a, b)
         IN  <<lo>> \o SortYearMonths(S \ {lo})

\* slice(-n): the last n elements
sliceLast(s, n) == SubSeq(s, IF Len(s) > n THEN Len(s) - n + 1 ELSE 1, Len(s))

\* new Date(month + '-01'): midnight UTC of the first of the month, which in
\* local time is still the last day of the month before when the browser is
\* west of UTC, and later on the first day when it is east.
ParseFirstOfMonth(ym, zone) ==
    LET mi == 12 * ym[1] + ym[2] - 1
    IN  CASE zone = "west" -> [mi |-> mi - 1, d |-> getDaysInMonth(mi - 1), t |-> 1]
          [] zone = "east" -> [mi |-> mi, d |-> 1, t |-> 1]
          [] OTHER -> [mi |-> mi, d |-> 1, t |-> 0]

\* getMonthsWithData(monthCount) of the Dashboard
getMonthsWithData(txs, budgetList, monthCount, zone) ==
    LET monthsWithData ==
            slice(Reverse(SortYearMonths(
                      { formatYearMonth(txs[k].date) : k \in 1..Len(txs) })),
                  0, monthCount)
    IN  [k \in 1..Len(monthsWithData) |->
            calculateMonthlyTotals(txs, budgetList,
                                   ParseFirstOfMonth(monthsWithData[k], zone))]

\* calculateMonthlyTrends of the server: a transaction that is not income is
\* summed as an expense.
calculateMonthlyTrends(txs) ==
    LET monthOf(t) == formatYearMonth(t.date)
        months == { monthOf(txs[k]) : k \in 1..Len(txs) }
        entry(m) ==
            LET income == SumAmounts(SelectSeq(txs,
                              LAMBDA t : monthOf(t) = m /\ t.type = "income"))
                expenses == SumAmounts(SelectSeq(txs,
                              LAMBDA t : monthOf(t) = m /\ t.type # "income"))
            IN  [month |-> m, income |-> income, expenses |-> expenses,
                 surplus |-> income - expenses]
        sorted == SortYearMonths(months)
    IN  sliceLast([k \in 1..Len(sorted) |-> entry(sorted[k])], 6)

\* date.setMonth(date.getMonth() - n): a day the target month does not have
\* rolls over into the month after it.
setMonthBack(date, n) ==
    LET target == date.mi - n
    IN  IF date.d > getDaysInMonth(target)
        THEN [mi |-> target + 1, d |-> date.d - getDaysInMonth(target), t |-> date.t]
        ELSE [mi |-> target, d |-> date.d, t |-> date.t]

\* last6Months and monthlyChartData of the earlier Dashboard
last6Months(txs, budgetList, today) ==
    LET dates == Reverse([k \in 1..6 |-> setMonthBack(today, k - 1)])
    IN  [k \in 1..6 |-> calculateMonthlyTotals(txs, budgetList, dates[k])]

(***************************************************************************)
(* SpecTrend: the three trend series on one transaction list.               *)
(***************************************************************************)
\* The months the transactions of SpecTrend may be dated in, from October
\* 2023 on.
TrendMonths == { 12 * 2023 + 9 + k : k \in 0..(MaxTrendMonths - 1) }

RECURSIVE SortMonths(_)
SortMonths(S) ==
    IF S = {} THEN <<>>
    ELSE LET lo == CHOOSE a \in S : \A b \in S : a <= b
         IN  <<lo>> \o SortMonths(S \ {lo})

TrendTransaction(mi) ==
    [type |-> IF mi % 2 = 0 THEN "income" ELSE "expense",
     amount |-> 100 + (mi % 12),
     date |-> MidMonth(mi)]

\* One transaction in each month of S, oldest first, newest first, or both.
TrendTransactions(S, order) ==
    LET asc == [k \in 1..Cardinality(S) |-> TrendTransaction(SortMonths(S)[k])]
    IN  CASE order = "ascending" -> asc
          [] order = "descending" -> Reverse(asc)
          [] OTHER -> asc \o Reverse(asc)

InitTrend ==
    /\ IdleServe
    /\ IdleBudget
    /\ IdleStore
    /\ IdleClassify
    /\ \E S \in SUBSET TrendMonths :
       \E order \in {"ascending", "descending", "twice"} :
       \E zone \in {"west", "utc", "east"} : \E day \in {15, 31} :
          arg = [transactions |-> TrendTransactions(S, order),
                 zone |-> zone,
                 today |-> [mi |-> 12 * 2024 + 4, d |-> day, t |-> 1]]
    /\ out = <<>>
    /\ fpc = "input"

\* const monthlyChartData = getMonthsWithData(6)
DashboardTrend ==
    /\ fpc = "input"
    /\ out' = getMonthsWithData(arg.transactions, <<>>, 6, arg.zone)
    /\ fpc' = "dashboardTrend"
    /\ UNCHANGED << openaiApiKey, transactions, categorizedTransactions, i, pc,
                    fetched, replies, status, description, classified, cpc, arg,
                    budgetVars,
                    storeVars >>

\* const monthlyTrends = calculateMonthlyTrends(transactions)
ServerTrend ==
    /\ fpc = "input"
    /\ out' = calculateMonthlyTrends(arg.transactions)
    /\ fpc' = "serverTrend"
    /\ UNCHANGED << openaiApiKey, transactions, categorizedTransactions, i, pc,
                    fetched, replies, status, description, classified, cpc, arg,
                    budgetVars,
                    storeVars >>

\* The chart data of the earlier Dashboard.
Last6MonthsTrend ==
    /\ fpc = "input"
    /\ out' = last6Months(arg.transactions, <<>>, arg.today)
    /\ fpc' = "last6Months"
    /\ UNCHANGED << openaiApiKey, transactions, categorizedTransactions, i, pc,
                    fetched, replies, status, description, classified, cpc, arg,
                    budgetVars,
                    storeVars >>

NextTrend == DashboardTrend \/ ServerTrend \/ Last6MonthsTrend

SpecTrend == InitTrend /\ [][NextTrend]_vars

(***************************************************************************)
(* C17. The trend series for count N (6 in every call) holds exactly the    *)
(* min(N, k) most recent calendar months that have a transaction, one       *)
(* entry per month with that month's income and expenses, oldest first; a   *)
(* month without transactions never appears.                                *)
(***************************************************************************)
ExpectedTrend(txs, n) ==
    LET months == { formatYearMonth(txs[k].date) : k \in 1..Len(txs) }
        recent == sliceLast(SortYearMonths(months), n)
    IN  [k \in 1..Len(recent) |->
            [month |-> recent[k],
             income |-> SumAmounts(SelectSeq(txs, LAMBDA t :
                            formatYearMonth(t.date) = recent[k] /\ t.type = "income")),
             expenses |-> SumAmounts(SelectSeq(txs, LAMBDA t :
                            formatYearMonth(t.date) = recent[k] /\ t.type = "expense"))]]

TrendOf(series) ==
    [k \in 1..Len(series) |->
        [month |-> series[k].month, income |-> series[k].income,
         expenses |-> series[k].expenses]]

C17_TrendIsRecentMonthsWithData ==
    fpc \in {"dashboardTrend", "serverTrend", "last6Months"} =>
        TrendOf(out) = ExpectedTrend(arg.transactions, 6)

(***************************************************************************)
(* C18. With total income > 0, the net worth (the sum of the wealth-        *)
(* building amounts dated on or before the as-of date) divided by total     *)
(* income, times 100, is the savings rate reported by the Dashboard and by  *)
(* the SavingsDashboard, for every selected month.                          *)
(***************************************************************************)
NetWorthAsOf(txs, asOfDate) ==
    SumAmounts(SelectSeq(txs, LAMBDA t :
        IsWealthBuilding(t) /\ getTime(t.date) <= getTime(asOfDate)))

TotalIncome(txs) == SumAmounts(SelectSeq(txs, LAMBDA t : t.type = "income"))

C18_SavingsRateIsNetWorthOverIncome ==
    (fpc = "savings" /\ TotalIncome(arg.transactions) > 0) =>
        LET rate == Percent(NetWorthAsOf(arg.transactions,
                                         endOfMonth(arg.selectedMonth)),
                            TotalIncome(arg.transactions))
        IN  /\ SamePercent(out.dashboard.savingsRatio, rate)
            /\ SamePercent(out.savingsDashboard.overallSavingsRate, rate)

(***************************************************************************)
(* Budgets: handleSave of BudgetSettings, generateSampleBudgets, the two    *)
(* versions of the App's handlers (budgets kept in localStorage, budgets    *)
(* kept in the Supabase table) and saveBudgets / loadBudgets.               *)
(***************************************************************************)
\* The categories the form of BudgetSettings is filled with.
FormCategories == << "Salary", "Rental" >>

\* monthlyBudgets of the form: an amount for some of the categories, 0 when
\* the field was cleared.
FormStates ==
    UNION { [S -> {0, 10}] :
            S \in SUBSET { FormCategories[k] : k \in 1..Len(FormCategories) } }

\* Object.entries(monthlyBudgets).filter(([_, amount]) => amount > 0).map(...)
newBudgets(form, selectedMonth) ==
    LET present == SelectSeq(FormCategories,
                             LAMBDA c : c \in DOMAIN form /\ form[c] > 0)
    IN  [n \in 1..Len(present) |->
            [category |-> present[n], amount |-> form[present[n]],
             month |-> selectedMonth]]

\* handleSave: the budgets of the other months, then the new entries.
allBudgets(budgetList, form, selectedMonth) ==
    SelectSeq(budgetList, LAMBDA b : b.month # selectedMonth)
        \o newBudgets(form, selectedMonth)

\* The categories and base amounts of generateSampleBudgets.
SampleBudgetBase ==
    << [category |-> "Salary", amount |-> 50000],
       [category |-> "Dividend", amount |-> 3000],
       [category |-> "Rental Income", amount |-> 8000],
       [category |-> "Living Expenses", amount |-> 8000],
       [category |-> "Rental", amount |-> 15000],
       [category |-> "Debt", amount |-> 12000],
       [category |-> "Education", amount |-> 5000],
       [category |-> "Healthcare", amount |-> 2000],
       [category |-> "Transportation", amount |-> 3000],
       [category |-> "Entertainment", amount |-> 2000],
       [category |-> "Shopping", amount |-> 3000],
       [category |-> "Insurance", amount |-> 2000],
       [category |-> "Taxes", amount |-> 5000],
       [category |-> "Charity", amount |-> 100],
       [category |-> "Savings", amount |-> 8000] >>

\* generateSampleBudgets: for monthOffset 0..5 the month of currentDate set
\* back by the offset, and in it one budget per category; budgetVariation
\* (a random factor per month in the code) is one percentage per call here.
generateSampleBudgets(date, variation) ==
    LET n == Len(SampleBudgetBase)
        monthStr(monthOffset) == formatYearMonth(setMonthBack(date, monthOffset))
    IN  [k \in 1..(6 * n) |->
            LET base == SampleBudgetBase[((k - 1) % n) + 1]
            IN  [category |-> base.category,
                 amount |-> (base.amount * variation + 50) \div 100,
                 month |-> monthStr((k - 1) \div n)]]

\* saveBudgets of supabaseStorage.ts: delete the rows of every month of the
\* list, then insert the list.
saveBudgets(rows, budgetList) ==
    LET months == { budgetList[k].month : k \in 1..Len(budgetList) }
    IN  SelectSeq(rows, LAMBDA b : ~(b.month \in months)) \o budgetList

\* loadBudgets of supabaseStorage.ts: the rows ordered by month, descending.
RECURSIVE RowsByMonth(_, _)
RowsByMonth(rows, months) ==
    IF months = <<>> THEN <<>>
    ELSE SelectSeq(rows, LAMBDA b : b.month = Head(months))
            \o RowsByMonth(rows, Tail(months))

loadBudgets(rows) ==
    RowsByMonth(rows, Reverse(SortYearMonths({ rows[k].month : k \in 1..Len(rows) })))

(***************************************************************************)
(* SpecBudget: budget operations of one user, in either version of the App. *)
(***************************************************************************)
\* The months BudgetSettings saves: May and April 2024.
FormMonths == { <<2024, 5>>, <<2024, 4>> }

InitBudget ==
    /\ IdleServe
    /\ IdleClassify
    /\ IdleCalc
    /\ IdleStore
    /\ app \in {"local", "supabase"}
    /\ \E day \in {15, 31} : currentDate = [mi |-> 12 * 2024 + 4, d |-> day, t |-> 1]
    /\ budgets = <<>>
    /\ stored = <<>>
    /\ saved = NoSave

\* handleSave of BudgetSettings, then handleUpdateBudgets of the App with
\* localStorage: setBudgets, and the effect that saves the whole list.
HandleSaveLocal ==
    /\ app = "local"
    /\ \E form \in FormStates : \E selectedMonth \in FormMonths :
          /\ budgets' = allBudgets(budgets, form, selectedMonth)
          /\ stored' = allBudgets(budgets, form, selectedMonth)
          /\ saved' = [month |-> selectedMonth,
                       entries |-> newBudgets(form, selectedMonth)]
    /\ UNCHANGED << openaiApiKey, transactions, categorizedTransactions, i, pc,
                    fetched, replies, status, description, classified, cpc,
                    calcVars, app, currentDate,
                    storeVars >>

\* handleSave of BudgetSettings, then handleUpdateBudgets of the App with
\* Supabase: saveBudgets(newBudgets), then setBudgets(newBudgets).
HandleSaveSupabase ==
    /\ app = "supabase"
    /\ \E form \in FormStates : \E selectedMonth \in FormMonths :
          /\ stored' = saveBudgets(stored, allBudgets(budgets, form, selectedMonth))
          /\ budgets' = allBudgets(budgets, form, selectedMonth)
          /\ saved' = [month |-> selectedMonth,
                       entries |-> newBudgets(form, selectedMonth)]
    /\ UNCHANGED << openaiApiKey, transactions, categorizedTransactions, i, pc,
                    fetched, replies, status, description, classified, cpc,
                    calcVars, app, currentDate,
                    storeVars >>

\* handleLoadSampleBudgets of the App with localStorage:
\* setBudgets(prev => [...prev, ...sampleBudgets]), then the saving effect.
LoadSampleBudgetsLocal ==
    /\ app = "local"
    /\ Len(budgets) <= MaxBudgets
    /\ \E variation \in {85, 115} :
          /\ budgets' = budgets \o generateSampleBudgets(currentDate, variation)
          /\ stored' = budgets \o generateSampleBudgets(currentDate, variation)
    /\ saved' = NoSave
    /\ UNCHANGED << openaiApiKey, transactions, categorizedTransactions, i, pc,
                    fetched, replies, status, description, classified, cpc,
                    calcVars, app, currentDate,
                    storeVars >>

\* handleLoadSampleBudgets of the App with Supabase:
\* saveBudgets(sampleBudgets), then setBudgets(sampleBudgets).
LoadSampleBudgetsSupabase ==
    /\ app = "supabase"
    /\ Len(stored) <= MaxBudgets
    /\ \E variation \in {85, 115} :
          /\ stored' = saveBudgets(stored, generateSampleBudgets(currentDate, variation))
          /\ budgets' = generateSampleBudgets(currentDate, variation)
    /\ saved' = NoSave
    /\ UNCHANGED << openaiApiKey, transactions, categorizedTransactions, i, pc,
                    fetched, replies, status, description, classified, cpc,
                    calcVars, app, currentDate,
                    storeVars >>

\* loadData of the App with Supabase: setBudgets(await loadBudgets()).
LoadData ==
    /\ app = "supabase"
    /\ budgets' = loadBudgets(stored)
    /\ saved' = NoSave
    /\ UNCHANGED << openaiApiKey, transactions, categorizedTransactions, i, pc,
                    fetched, replies, status, description, classified, cpc,
                    calcVars, app, currentDate, stored,
                    storeVars >>

NextBudget ==
    \/ HandleSaveLocal
    \/ HandleSaveSupabase
    \/ LoadSampleBudgetsLocal
    \/ LoadSampleBudgetsSupabase
    \/ LoadData

SpecBudget == InitBudget /\ [][NextBudget]_vars

(***************************************************************************)
(* C19. After any sequence of budget operations the budget list in memory   *)
(* and the one in storage hold at most one budget per (category, month),    *)
(* and right after a month is saved both hold exactly the newly saved       *)
(* entries for that month.                                                  *)
(***************************************************************************)
OnePerCategoryAndMonth(budgetList) ==
    \A j, k \in 1..Len(budgetList) :
        (budgetList[j].category = budgetList[k].category
           /\ budgetList[j].month = budgetList[k].month) => j = k

EntriesOfMonth(budgetList, month) ==
    SelectSeq(budgetList, LAMBDA b : b.month = month)

C19_OneBudgetPerCategoryAndMonth ==
    /\ OnePerCategoryAndMonth(budgets)
    /\ OnePerCategoryAndMonth(stored)
    /\ saved # NoSave =>
          /\ EntriesOfMonth(budgets, saved.month) = saved.entries
          /\ EntriesOfMonth(stored, saved.month) = saved.entries

(***************************************************************************)
(* C20. No category name is a key of both the expense tree and the income   *)
(* tree of the taxonomy: the tree a category is in determines the type of   *)
(* its transactions and budgets uniquely.                                   *)
(***************************************************************************)
TypesOfCategory(c) ==
    { ty \in {"expense", "income"} :
        \/ ty = "expense" /\ c \in DOMAIN EXPENSE_CATEGORIES
        \/ ty = "income" /\ c \in DOMAIN INCOME_CATEGORIES }

C20_CategoryInOneTree ==
    /\ \A c \in TaxonomyKeys : Cardinality(TypesOfCategory(c)) <= 1
    /\ fpc = "monthlyTotals" =>
          \A k \in 1..Len(arg.budgets) :
              Cardinality(TypesOfCategory(arg.budgets[k].category)) <= 1

(***************************************************************************)
(* SpecStore: the App of one user over its storage, in either version of   *)
(* the App: rows of the tables transactions and budgets (Supabase) or the  *)
(* two localStorage keys (localStorage).                                   *)
(***************************************************************************)
\* Most rows the table transactions gets in a run, and most rows the table
\* budgets holds.
MaxStoreTx == 2
MaxStoreBudgets == 2

\* The error of a storage function without user, of a write the database
\* rejects, of localStorage.setItem over quota, and no error.
NotAuthenticated == "User not authenticated"
Rejected == "rejected"
QuotaExceeded == "QuotaExceededError"
NoError == "none"

\* data: null of supabaseStorage.ts.
null == <<>>

\* The rows of a list whose id is the given one, and the ids of a list.
Ids(rows) == { rows[k].id : k \in 1..Len(rows) }

\* saveTransaction: insert(...).select().single(); the table gives the id.
saveTransaction_Unguarded(user, rows, transaction, id, rejected) ==
    IF rejected
    THEN [rows |-> rows, data |-> null, error |-> Rejected]
    ELSE [rows |-> Append(rows, [transaction EXCEPT !.id = id]),
          data |-> << [transaction EXCEPT !.id = id] >>,
          error |-> NoError]

saveTransaction(user, rows, transaction, id, rejected) ==
    IF ~user
    THEN [rows |-> rows, data |-> null, error |-> NotAuthenticated]
    ELSE saveTransaction_Unguarded(user, rows, transaction, id, rejected)

\* updateTransaction: update(...).eq('id', id).select().single(); single()
\* is an error when no row has the id.
updateTransaction(user, rows, id, updates, rejected) ==
    IF ~user
    THEN [rows |-> rows, data |-> null, error |-> NotAuthenticated]
    ELSE IF rejected \/ ~(id \in Ids(rows))
    THEN [rows |-> rows, data |-> null, error |-> Rejected]
    ELSE [rows |-> [k \in 1..Len(rows) |->
                       IF rows[k].id = id
                       THEN [rows[k] EXCEPT !.amount = updates.amount,
                                            !.date = updates.date]
                       ELSE rows[k]],
          data |-> << [updates EXCEPT !.id = id] >>,
          error |-> NoError]

\* deleteTransaction: delete().eq('id', id).
deleteTransaction(user, rows, id, rejected) ==
    IF ~user
    THEN [rows |-> rows, data |-> null, error |-> NotAuthenticated]
    ELSE IF rejected
    THEN [rows |-> rows, data |-> null, error |-> Rejected]
    ELSE [rows |-> SelectSeq(rows, LAMBDA t : t.id # id),
          data |-> null, error |-> NoError]

\* bulkInsertTransactions: one insert of the whole list; the table gives
\* the ids firstId, firstId + 1, ...
bulkInsertTransactions(user, rows, list, firstId, rejected) ==
    IF ~user
    THEN [rows |-> rows, data |-> null, error |-> NotAuthenticated]
    ELSE IF rejected
    THEN [rows |-> rows, data |-> null, error |-> Rejected]
    ELSE [rows |-> rows \o [k \in 1..Len(list) |->
                               [list[k] EXCEPT !.id = firstId + k - 1]],
          data |-> [k \in 1..Len(list) |->
                               [list[k] EXCEPT !.id = firstId + k - 1]],
          error |-> NoError]

\* deleteTransactionsByMonth: delete().gte('date', `<<"m","o","n","t","h">>-01`)
\* .lte('date', `<<"m","o","n","t","h">>-31`); month is the number 12 * year + month0.
deleteTransactionsByMonth(user, rows, month, rejected) ==
    IF ~user
    THEN [rows |-> rows, data |-> null, error |-> NotAuthenticated]
    ELSE IF rejected
    THEN [rows |-> rows, data |-> null, error |-> Rejected]
    ELSE [rows |-> SelectSeq(rows, LAMBDA t :
                       ~(t.date.mi = month /\ t.date.d >= 1 /\ t.date.d <= 31)),
          data |-> null, error |-> NoError]

\* deleteAllTransactions: delete().eq('user_id', user.id).
deleteAllTransactions(user, rows, rejected) ==
    IF ~user
    THEN [rows |-> rows, data |-> null, error |-> NotAuthenticated]
    ELSE IF rejected
    THEN [rows |-> rows, data |-> null, error |-> Rejected]
    ELSE [rows |-> <<>>, data |-> null, error |-> NoError]

\* loadTransactions: the rows ordered by date, descending (rows of one date
\* in the order of their insertion); [] without user and on an error.
RECURSIVE RowsByDate(_, _)
RowsByDate(rows, months) ==
    IF months = <<>> THEN <<>>
    ELSE SelectSeq(rows, LAMBDA t : t.date.mi = Head(months))
            \o RowsByDate(rows, Tail(months))

loadTransactions(user, rows, rejected) ==
    IF ~user \/ rejected THEN <<>>
    ELSE RowsByDate(rows, Reverse(SortMonths({ rows[k].date.mi : k \in 1..Len(rows) })))

\* saveBudgets of supabaseStorage.ts with its failures: the deletes of the
\* months of the list (their errors are not read), then one insert of the
\* list, whose { data, error } is returned.
saveBudgetsCall(user, rows, budgetList, deleteRejected, insertRejected) ==
    LET months == { budgetList[k].month : k \in 1..Len(budgetList) }
        afterDeletes == IF deleteRejected THEN rows
                        ELSE SelectSeq(rows, LAMBDA b : ~(b.month \in months))
    IN  IF ~user
        THEN [rows |-> rows, data |-> null, error |-> NotAuthenticated]
        ELSE IF insertRejected
        THEN [rows |-> afterDeletes, data |-> null, error |-> Rejected]
        ELSE IF deleteRejected
        THEN [rows |-> rows \o budgetList, data |-> budgetList, error |-> NoError]
        ELSE [rows |-> saveBudgets(rows, budgetList), data |-> budgetList,
              error |-> NoError]

\* loadBudgets of supabaseStorage.ts with its guards: [] without user and
\* on an error.
loadBudgetsCall(user, rows, rejected) ==
    IF ~user \/ rejected THEN <<>> ELSE loadBudgets(rows)

\* updateBudget: upsert({ user_id, category, amount, month }).select()
\* .single(); the row of the category and month is replaced when the table
\* has a unique constraint on them (conflict), a row is added when not.
updateBudget(user, rows, budget, conflict, rejected) ==
    IF ~user
    THEN [rows |-> rows, data |-> null, error |-> NotAuthenticated]
    ELSE IF rejected
    THEN [rows |-> rows, data |-> null, error |-> Rejected]
    ELSE [rows |-> IF conflict
                   THEN SelectSeq(rows, LAMBDA b :
                            ~(b.category = budget.category /\ b.month = budget.month))
                        \o << budget >>
                   ELSE Append(rows, budget),
          data |-> << budget >>, error |-> NoError]

\* The month of the transactions a user adds one at a time: January 2024
\* (an imported file has a transaction of January and one of March).
StoreMonths == { 12 * 2024 }

\* The transaction AddTransaction hands to the App (its id is the client's,
\* never one of the table) and the one the edit form hands back.
NewTransaction(mi) == [id |-> -1, date |-> [mi |-> mi, d |-> 15], amount |-> 10]
EditedTransaction(t) == [t EXCEPT !.amount = 20]

\* The forms and the month of BudgetSettings here: one category, May 2024.
StoreForms == { [c \in {"Salary"} |-> 10], [c \in {"Salary"} |-> 0] }
StoreFormMonths == { <<2024, 5>> }

\* The variables of the other specifications that SpecStore leaves alone.
idleVars == << openaiApiKey, transactions, categorizedTransactions, i, pc,
              fetched, replies, status, description, classified, cpc,
              calcVars, currentDate, saved, calls >>

InitStore ==
    /\ IdleServe
    /\ IdleClassify
    /\ IdleCalc
    /\ app \in {"local", "supabase"}
    /\ currentDate = [mi |-> 12 * 2024 + 4, d |-> 15, t |-> 1]
    /\ budgets = <<>>
    /\ stored = <<>>
    /\ saved = NoSave
    /\ session = (app = "supabase")
    /\ appTransactions = <<>>
    /\ storedTransactions = <<>>
    /\ nextId = 0
    /\ result = NoOperation
    /\ calls = <<>>

\* loadData of the App with Supabase: setTransactions and setBudgets from
\* loadTransactions and loadBudgets.
StoreLoadData ==
    /\ app = "supabase"
    /\ \E rejected \in BOOLEAN :
          /\ appTransactions' = loadTransactions(session, storedTransactions, rejected)
          /\ budgets' = loadBudgetsCall(session, stored, rejected)
    /\ result' = [op |-> "loadData", error |-> NoError]
    /\ UNCHANGED << idleVars, app, stored, session, storedTransactions, nextId >>

\* handleAddTransaction of the App with Supabase.
HandleAddTransaction ==
    /\ app = "supabase"
    /\ nextId < MaxStoreTx
    /\ \E mi \in StoreMonths : \E rejected \in BOOLEAN :
          LET r == saveTransaction(session, storedTransactions,
                                   NewTransaction(mi), nextId, rejected)
          IN  /\ storedTransactions' = r.rows
              /\ result' = [op |-> "add", error |-> r.error]
              /\ IF r.error # NoError
                 THEN UNCHANGED << appTransactions, nextId >>
                 ELSE /\ appTransactions' =
                           << [NewTransaction(mi) EXCEPT !.id = r.data[1].id] >>
                              \o appTransactions
                      /\ nextId' = nextId + 1
    /\ UNCHANGED << idleVars, app, budgets, stored, session >>

\* handleBulkImport of the App with Supabase: bulkInsertTransactions, then
\* loadData.
HandleBulkImport ==
    /\ app = "supabase"
    /\ nextId + 2 <= MaxStoreTx
    /\ \E rejected \in BOOLEAN : \E loadRejected \in BOOLEAN :
          LET list == [k \in 1..2 |-> NewTransaction(12 * 2024 + 2 * (k - 1))]
              r == bulkInsertTransactions(session, storedTransactions, list,
                                          nextId, rejected)
          IN  /\ storedTransactions' = r.rows
              /\ result' = [op |-> "bulkImport", error |-> r.error]
              /\ IF r.error # NoError
                 THEN UNCHANGED << appTransactions, budgets, nextId >>
                 ELSE /\ appTransactions' = loadTransactions(session, r.rows, loadRejected)
                      /\ budgets' = loadBudgetsCall(session, stored, loadRejected)
                      /\ nextId' = nextId + 2
    /\ UNCHANGED << idleVars, app, stored, session >>

\* handleDeleteTransaction of the App with Supabase, confirmed by the user.
HandleDeleteTransaction ==
    /\ app = "supabase"
    /\ \E k \in 1..Len(appTransactions) : \E rejected \in BOOLEAN :
          LET id == appTransactions[k].id
              r == deleteTransaction(session, storedTransactions, id, rejected)
          IN  /\ storedTransactions' = r.rows
              /\ result' = [op |-> "delete", error |-> r.error]
              /\ IF r.error # NoError
                 THEN UNCHANGED appTransactions
                 ELSE appTransactions' =
                          SelectSeq(appTransactions, LAMBDA t : t.id # id)
    /\ UNCHANGED << idleVars, app, budgets, stored, session, nextId >>

\* handleEditTransaction of the App with Supabase.
HandleEditTransaction ==
    /\ app = "supabase"
    /\ \E k \in 1..Len(appTransactions) : \E rejected \in BOOLEAN :
          LET updatedTransaction == EditedTransaction(appTransactions[k])
              r == updateTransaction(session, storedTransactions,
                                     updatedTransaction.id, updatedTransaction,
                                     rejected)
          IN  /\ storedTransactions' = r.rows
              /\ result' = [op |-> "edit", error |-> r.error]
              /\ IF r.error # NoError
                 THEN UNCHANGED appTransactions
                 ELSE appTransactions' =
                          [j \in 1..Len(appTransactions) |->
                              IF appTransactions[j].id = updatedTransaction.id
                              THEN updatedTransaction ELSE appTransactions[j]]
    /\ UNCHANGED << idleVars, app, budgets, stored, session, nextId >>

\* handleDeleteByMonth of TransactionHistory: the month is one of the
\* transactions shown; the App gives the component no onBulkDelete.
HandleDeleteByMonth ==
    /\ app = "supabase"
    /\ \E k \in 1..Len(appTransactions) : \E rejected \in BOOLEAN :
          LET selectedDeleteMonth == appTransactions[k].date.mi
              r == deleteTransactionsByMonth(session, storedTransactions,
                                             selectedDeleteMonth, rejected)
          IN  /\ storedTransactions' = r.rows
              /\ result' = [op |-> "deleteByMonth", error |-> r.error]
    /\ UNCHANGED << idleVars, app, budgets, stored, session, nextId,
                    appTransactions >>

\* handleDeleteAll of TransactionHistory, confirmed twice by the user.
HandleDeleteAll ==
    /\ app = "supabase"
    /\ \E rejected \in BOOLEAN :
          LET r == deleteAllTransactions(session, storedTransactions, rejected)
          IN  /\ storedTransactions' = r.rows
              /\ result' = [op |-> "deleteAll", error |-> r.error]
    /\ UNCHANGED << idleVars, app, budgets, stored, session, nextId,
                    appTransactions >>

\* handleSave of BudgetSettings, then handleUpdateBudgets of the App with
\* Supabase.
HandleUpdateBudgets ==
    /\ app = "supabase"
    /\ \E form \in StoreForms : \E selectedMonth \in StoreFormMonths :
       \E deleteRejected \in BOOLEAN : \E insertRejected \in BOOLEAN :
          LET list == allBudgets(budgets, form, selectedMonth)
              r == saveBudgetsCall(session, stored, list, deleteRejected,
                                   insertRejected)
          IN  /\ Len(r.rows) <= MaxStoreBudgets
              /\ stored' = r.rows
              /\ result' = [op |-> "updateBudgets", error |-> r.error]
              /\ budgets' = IF r.error # NoError THEN budgets ELSE list
    /\ UNCHANGED << idleVars, app, session, appTransactions, storedTransactions,
                    nextId >>

\* updateBudget of supabaseStorage.ts, called for one budget.
UpdateBudget ==
    /\ app = "supabase"
    /\ Len(stored) < MaxStoreBudgets
    /\ \E conflict \in BOOLEAN : \E rejected \in BOOLEAN :
          LET r == updateBudget(session, stored,
                                [category |-> "Salary", amount |-> 10,
                                 month |-> <<2024, 5>>], conflict, rejected)
          IN  /\ stored' = r.rows
              /\ result' = [op |-> "updateBudget", error |-> r.error]
    /\ UNCHANGED << idleVars, app, budgets, session, appTransactions,
                    storedTransactions, nextId >>

\* The session ends at the server while the App is shown: getUser() of the
\* storage functions has no user from now on.
SessionExpires ==
    /\ app = "supabase"
    /\ session
    /\ session' = FALSE
    /\ result' = [op |-> "sessionExpires", error |-> NoError]
    /\ UNCHANGED << idleVars, app, budgets, stored, appTransactions,
                    storedTransactions, nextId >>

\* The user signs in again: the effect on user runs loadData.
SignIn ==
    /\ app = "supabase"
    /\ ~session
    /\ session' = TRUE
    /\ \E rejected \in BOOLEAN :
          /\ appTransactions' = loadTransactions(TRUE, storedTransactions, rejected)
          /\ budgets' = loadBudgetsCall(TRUE, stored, rejected)
    /\ result' = [op |-> "signIn", error |-> NoError]
    /\ UNCHANGED << idleVars, app, stored, storedTransactions, nextId >>

\* saveTransactions / saveBudgets of the App with localStorage, run by the
\* effect after the state has changed: setItem stores the list or throws.
setItem(old, list, quotaExceeded) ==
    IF quotaExceeded THEN [rows |-> old, error |-> QuotaExceeded]
    ELSE [rows |-> list, error |-> NoError]

\* handleAddTransaction of the App with localStorage, then the effect.
AddTransactionLocal ==
    /\ app = "local"
    /\ nextId < MaxStoreTx
    /\ \E mi \in StoreMonths : \E quotaExceeded \in BOOLEAN :
          LET list == Append(appTransactions,
                             [NewTransaction(mi) EXCEPT !.id = nextId])
              r == setItem(storedTransactions, list, quotaExceeded)
          IN  /\ appTransactions' = list
              /\ storedTransactions' = r.rows
              /\ result' = [op |-> "add", error |-> r.error]
    /\ nextId' = nextId + 1
    /\ UNCHANGED << idleVars, app, budgets, stored, session >>

\* handleDeleteTransaction of the App with localStorage, then the effect.
DeleteTransactionLocal ==
    /\ app = "local"
    /\ \E k \in 1..Len(appTransactions) : \E quotaExceeded \in BOOLEAN :
          LET list == SelectSeq(appTransactions,
                                LAMBDA t : t.id # appTransactions[k].id)
              r == setItem(storedTransactions, list, quotaExceeded)
          IN  /\ appTransactions' = list
              /\ storedTransactions' = r.rows
              /\ result' = [op |-> "delete", error |-> r.error]
    /\ UNCHANGED << idleVars, app, budgets, stored, session, nextId >>

\* handleEditTransaction of the App with localStorage, then the effect.
EditTransactionLocal ==
    /\ app = "local"
    /\ \E k \in 1..Len(appTransactions) : \E quotaExceeded \in BOOLEAN :
          LET updatedTransaction == EditedTransaction(appTransactions[k])
              list == [j \in 1..Len(appTransactions) |->
                          IF appTransactions[j].id = updatedTransaction.id
                          THEN updatedTransaction ELSE appTransactions[j]]
              r == setItem(storedTransactions, list, quotaExceeded)
          IN  /\ appTransactions' = list
              /\ storedTransactions' = r.rows
              /\ result' = [op |-> "edit", error |-> r.error]
    /\ UNCHANGED << idleVars, app, budgets, stored, session, nextId >>

\* handleUpdateBudgets of the App with localStorage, then the effect.
UpdateBudgetsLocal ==
    /\ app = "local"
    /\ \E form \in StoreForms : \E selectedMonth \in StoreFormMonths :
       \E quotaExceeded \in BOOLEAN :
          LET list == allBudgets(budgets, form, selectedMonth)
              r == setItem(stored, list, quotaExceeded)
          IN  /\ budgets' = list
              /\ stored' = r.rows
              /\ result' = [op |-> "updateBudgets", error |-> r.error]
    /\ UNCHANGED << idleVars, app, session, appTransactions, storedTransactions,
                    nextId >>

NextStore ==
    \/ StoreLoadData
    \/ HandleAddTransaction
    \/ HandleBulkImport
    \/ HandleDeleteTransaction
    \/ HandleEditTransaction
    \/ HandleDeleteByMonth
    \/ HandleDeleteAll
    \/ HandleUpdateBudgets
    \/ UpdateBudget
    \/ SessionExpires
    \/ SignIn
    \/ AddTransactionLocal
    \/ DeleteTransactionLocal
    \/ EditTransactionLocal
    \/ UpdateBudgetsLocal

SpecStore == InitStore /\ [][NextStore]_vars

\* The operations of the App that write transactions or budgets.
WriteOps == {"add", "edit", "delete", "bulkImport", "updateBudgets"}

\* C21: when the storage write of an add, edit, delete, bulk import or budget
\* update returns an error, the step leaves the App's transactions and
\* budgets as they were.
C21_MemoryUnchangedWhenWriteFails ==
    [][(result'.op \in WriteOps /\ result'.error # NoError)
          => (appTransactions' = appTransactions /\ budgets' = budgets)]_vars

\* The result of every operation names an operation and an error.
StoreTypeOK ==
    /\ result.error \in {NoError, NotAuthenticated, Rejected, QuotaExceeded}
    /\ Ids(appTransactions) \subseteq 0..(MaxStoreTx - 1)

\* C26: after a delete-by-month or delete-all of the transaction history
\* that reports success, the App's transactions hold none of the
\* transactions the step deleted from storage.
C26_MemoryHasNoDeletedTransaction ==
    [][(result'.op \in {"deleteByMonth", "deleteAll"} /\ result'.error = NoError)
          => Ids(appTransactions')
                \cap (Ids(storedTransactions) \ Ids(storedTransactions')) = {}]_vars

\* The operations that call a write function of supabaseStorage.ts:
\* saveTransaction, updateTransaction, deleteTransaction,
\* bulkInsertTransactions, deleteTransactionsByMonth, deleteAllTransactions,
\* saveBudgets, updateBudget.
StorageWriteOps ==
    {"add", "edit", "delete", "bulkImport", "deleteByMonth", "deleteAll",
     "updateBudgets", "updateBudget"}

\* C30: with no authenticated user, every storage write returns the error
\* 'User not authenticated' and leaves the stored transactions and budgets
\* alone, and loadTransactions / loadBudgets return an empty list.
C30_NoUserNoWrite ==
    [][(app = "supabase" /\ ~session)
          => /\ result'.op \in StorageWriteOps
                  => /\ result'.error = NotAuthenticated
                     /\ storedTransactions' = storedTransactions
                     /\ stored' = stored
             /\ result'.op = "loadData"
                  => (appTransactions' = <<>> /\ budgets' = <<>>)]_vars

\* A write was refused for want of a user while storage held a transaction
\* and a budget.
C30_Witness ==
    /\ app = "supabase"
    /\ ~session
    /\ result.op \in StorageWriteOps
    /\ result.error = NotAuthenticated
    /\ storedTransactions # <<>>
    /\ stored # <<>>

\* C25: when saveBudgets returns an error, the stored budgets are the ones
\* held before the call.
C25_FailedSaveBudgetsChangesNothing ==
    [][(result'.op = "updateBudgets" /\ result'.error # NoError)
          => stored' = stored]_vars

(***************************************************************************)
(* SpecSample: generateSampleBudgets run on one day of 2024.               *)
(***************************************************************************)
\* The days of the month the sample budgets are generated on.
SampleDays == {1, 15, 28, 29, 30, 31}

InitSample ==
    /\ IdleServe
    /\ IdleClassify
    /\ IdleBudget
    /\ IdleStore
    /\ \E mi \in (12 * 2024)..(12 * 2024 + 11) :
       \E day \in { x \in SampleDays : x <= getDaysInMonth(mi) } :
       \E variation \in {85, 115} :
          arg = [date |-> [mi |-> mi, d |-> day, t |-> 1], variation |-> variation]
    /\ out = <<>>
    /\ fpc = "input"

GenerateSampleBudgets ==
    /\ fpc = "input"
    /\ out' = generateSampleBudgets(arg.date, arg.variation)
    /\ fpc' = "sample"
    /\ UNCHANGED << openaiApiKey, transactions, categorizedTransactions, i, pc,
                    fetched, replies, status, description, classified, cpc, arg,
                    budgetVars, storeVars >>

NextSample == GenerateSampleBudgets

SpecSample == InitSample /\ [][NextSample]_vars

\* The current month and the 5 months before it, as 'YYYY-MM'.
SixMonthsTo(mi) == { << (mi - n) \div 12, ((mi - n) % 12) + 1 >> : n \in 0..5 }

\* C29: on every current date generateSampleBudgets returns budgets of the
\* current month and the 5 months before it, 6 distinct consecutive months,
\* with exactly one budget per category and month.
C29_SixConsecutiveMonthsOnEveryDay ==
    fpc = "sample" =>
        /\ { out[k].month : k \in 1..Len(out) } = SixMonthsTo(arg.date.mi)
        /\ OnePerCategoryAndMonth(out)
        /\ Len(out) = 6 * Len(SampleBudgetBase)

(***************************************************************************)
(* SpecSampleLoad: the budget operations of the App with Supabase for a    *)
(* user who may have saved a budget for June 2023, a month the sample      *)
(* budgets of May 2024 do not reach, and has signed in (loadData has run). *)
(***************************************************************************)
InitSampleLoad ==
    /\ IdleServe
    /\ IdleClassify
    /\ IdleCalc
    /\ IdleStore
    /\ app = "supabase"
    /\ currentDate = [mi |-> 12 * 2024 + 4, d |-> 15, t |-> 1]
    /\ stored \in { <<>>,
                    << [category |-> "Salary", amount |-> 10, month |-> <<2023, 6>>] >> }
    /\ budgets = loadBudgets(stored)
    /\ saved = NoSave

NextSampleLoad ==
    \/ HandleSaveSupabase
    \/ LoadSampleBudgetsSupabase
    \/ LoadData

SpecSampleLoad == InitSampleLoad /\ [][NextSampleLoad]_vars

\* Two budget lists hold the same budgets.
SameBudgets(a, b) ==
    /\ Len(a) = Len(b)
    /\ { a[k] : k \in 1..Len(a) } = { b[k] : k \in 1..Len(b) }

\* C28: in the step in which handleLoadSampleBudgets succeeds (storage has
\* saved the sample and the App's budgets are the sample), the App's budgets
\* are the budgets storage holds.
C28_MemoryIsStorageAfterSampleLoad ==
    [][(\E variation \in {85, 115} :
           /\ budgets' = generateSampleBudgets(currentDate, variation)
           /\ stored' = saveBudgets(stored, budgets'))
          => SameBudgets(budgets', stored')]_vars

(***************************************************************************)
(* SpecRace: two saveBudgets calls of one user run concurrently; every     *)
(* await of supabaseStorage.ts is one step and every request succeeds.     *)
(***************************************************************************)
\* The month both calls save, and the lists a call is given: each has a
\* budget of May 2024, two have one of April 2024 too.
RaceMonth == <<2024, 5>>
RaceBudget(category, amount, month) ==
    [category |-> category, amount |-> amount, month |-> month]
RaceLists ==
    { << RaceBudget("Salary", 10, <<2024, 5>>) >>,
      << RaceBudget("Salary", 20, <<2024, 5>>), RaceBudget("Rental", 5, <<2024, 5>>) >>,
      << RaceBudget("Salary", 10, <<2024, 5>>), RaceBudget("Rental", 5, <<2024, 4>>) >>,
      << RaceBudget("Rental", 5, <<2024, 4>>), RaceBudget("Salary", 20, <<2024, 5>>) >> }

\* const months = [...new Set(budgets.map(b => b.month))]: the months of
\* the list in the order of their first occurrence.
UniqueMonths(budgetList) ==
    LET firsts == { k \in 1..Len(budgetList) :
                      \A j \in 1..(k - 1) : budgetList[j].month # budgetList[k].month }
    IN  [n \in 1..Cardinality(firsts) |-> budgetList[SortMonths(firsts)[n]].month]

InitRace ==
    /\ IdleServe
    /\ IdleClassify
    /\ IdleCalc
    /\ app = "supabase"
    /\ currentDate = [mi |-> 12 * 2024 + 4, d |-> 15, t |-> 1]
    /\ budgets = <<>>
    /\ stored \in { <<>>, << RaceBudget("Salary", 7, <<2024, 5>>) >> }
    /\ saved = NoSave
    /\ session = TRUE
    /\ appTransactions = <<>>
    /\ storedTransactions = <<>>
    /\ nextId = 0
    /\ result = NoOperation
    /\ \E a \in RaceLists : \E b \in RaceLists :
          calls = [c \in {1, 2} |->
                     [pc |-> "getUser", list |-> IF c = 1 THEN a ELSE b,
                      months |-> <<>>]]

raceIdle == << openaiApiKey, transactions, categorizedTransactions, i, pc,
              fetched, replies, status, description, classified, cpc,
              calcVars, app, currentDate, budgets, saved, session,
              appTransactions, storedTransactions, nextId, result >>

\* await supabase.auth.getUser(), then months of the list.
SaveBudgetsGetUser(c) ==
    /\ calls[c].pc = "getUser"
    /\ session
    /\ calls' = [calls EXCEPT ![c].pc = "delete",
                              ![c].months = UniqueMonths(calls[c].list)]
    /\ UNCHANGED << raceIdle, stored >>

\* One turn of the loop: await delete().eq('user_id', ...).eq('month', month);
\* after the last month the call goes on to the insert.
SaveBudgetsDelete(c) ==
    /\ calls[c].pc = "delete"
    /\ calls[c].months # <<>>
    /\ stored' = SelectSeq(stored, LAMBDA b : b.month # Head(calls[c].months))
    /\ calls' = [calls EXCEPT ![c].months = Tail(calls[c].months),
                              ![c].pc = IF Tail(calls[c].months) = <<>>
                                        THEN "insert" ELSE "delete"]
    /\ UNCHANGED raceIdle

\* await insert(budgetsToInsert).select(), and the return.
SaveBudgetsInsert(c) ==
    /\ calls[c].pc = "insert"
    /\ stored' = stored \o calls[c].list
    /\ calls' = [calls EXCEPT ![c].pc = "done"]
    /\ UNCHANGED raceIdle

NextRace ==
    \E c \in {1, 2} :
        \/ SaveBudgetsGetUser(c)
        \/ SaveBudgetsDelete(c)
        \/ SaveBudgetsInsert(c)

SpecRace == InitRace /\ [][NextRace]_vars

\* C24: when both calls have returned, storage holds at most one budget per
\* category for the month both saved, and the month's entries are those of
\* one of the two calls.
C24_ConcurrentSavesLeaveOneCallsMonth ==
    (calls # <<>> /\ \A c \in {1, 2} : calls[c].pc = "done") =>
        /\ OnePerCategoryAndMonth(EntriesOfMonth(stored, RaceMonth))
        /\ \E c \in {1, 2} :
              SameBudgets(EntriesOfMonth(stored, RaceMonth),
                          EntriesOfMonth(calls[c].list, RaceMonth))

\* C27: the categorize action returns every transaction that already has a
\* category other than 'Uncategorized' with its category, subcategory and
\* type unchanged, with an API key and without.
C27_CategorizedTransactionsKept ==
    (pc = "responded" /\ status = 200) =>
        /\ Len(categorizedTransactions) = Len(transactions)
        /\ \A k \in 1..Len(transactions) :
              ~IsUncategorized(transactions[k]) =>
                  /\ categorizedTransactions[k].id = transactions[k].id
                  /\ categorizedTransactions[k].category = transactions[k].category
                  /\ categorizedTransactions[k].subcategory = transactions[k].subcategory
                  /\ categorizedTransactions[k].type = transactions[k].type

(***************************************************************************)
(* SpecDebt: the debt-to-income ratio of the Dashboard and of the server's *)
(* fallback insights, on one expense per category of a set of categories.  *)
(***************************************************************************)
\* debtToIncomeRatio of calculateKPIs of the Dashboard.
debtToIncomeRatio(txs) ==
    LET totalIncome == SumAmounts(SelectSeq(txs, LAMBDA t : t.type = "income"))
        debtTransactions ==
            SelectSeq(txs, LAMBDA t : t.type = "expense" /\ t.category = "Debt")
        totalDebt == SumAmounts(debtTransactions)
    IN  IF totalIncome > 0 THEN Percent(totalDebt, totalIncome) ELSE ZeroPercent

\* entries.sort((a, b) => b.amount - a.amount): by amount, descending,
\* entries of one amount in their order in the list (the sort is stable).
RECURSIVE SortByAmount(_)
SortByAmount(entries) ==
    IF entries = <<>> THEN <<>>
    ELSE LET k == CHOOSE a \in 1..Len(entries) :
                     /\ \A b \in 1..Len(entries) : entries[b].amount <= entries[a].amount
                     /\ \A b \in 1..(a - 1) : entries[b].amount < entries[a].amount
         IN  << entries[k] >>
                \o SortByAmount(SubSeq(entries, 1, k - 1)
                                   \o SubSeq(entries, k + 1, Len(entries)))

\* topExpenseCategories of analyzeFinancialData: the expenses other than
\* 'Savings' summed by category (keys in the order of their first
\* transaction), sorted by amount, the first 5.
topExpenseCategories(txs) ==
    LET expenses == SelectSeq(txs, LAMBDA t : t.type = "expense"
                                               /\ t.category # "Savings")
        firsts == { k \in 1..Len(expenses) :
                      \A j \in 1..(k - 1) : expenses[j].category # expenses[k].category }
        expensesByCategory ==
            [n \in 1..Cardinality(firsts) |->
                LET c == expenses[SortMonths(firsts)[n]].category
                IN  [category |-> c,
                     amount |-> SumAmounts(SelectSeq(expenses,
                                    LAMBDA t : t.category = c))]]
        sorted == SortByAmount(expensesByCategory)
    IN  SubSeq(sorted, 1, IF Len(sorted) > 5 THEN 5 ELSE Len(sorted))

\* calculateDebtToIncomeRatio of the server, on the metrics that
\* analyzeFinancialData hands to generateFinancialInsights.
calculateDebtToIncomeRatio(metrics) ==
    IF metrics.totalIncome = 0 THEN ZeroPercent
    ELSE LET debtExpenses ==
                 SumAmounts(SelectSeq(metrics.topExpenseCategories,
                                      LAMBDA cat : cat.category = "Debt"))
         IN  IF metrics.totalIncome > 0
             THEN Percent(debtExpenses, metrics.totalIncome)
             ELSE ZeroPercent

\* The expense categories of the input and the amount of each expense; the
\* Debt payment is the smallest or the largest of them.
DebtCategories ==
    << "Debt", "Rental", "Education", "Healthcare", "Transportation",
       "Shopping", "Taxes" >>

DebtTransactions(S, debt, income) ==
    (IF income > 0
     THEN << [type |-> "income", category |-> "Salary", amount |-> income] >>
     ELSE <<>>)
    \o [k \in 1..Cardinality(S) |->
           LET c == DebtCategories[SortMonths(S)[k]]
           IN  [type |-> "expense", category |-> c,
                amount |-> IF c = "Debt" THEN debt ELSE 100 * SortMonths(S)[k]]]

InitDebt ==
    /\ IdleServe
    /\ IdleClassify
    /\ IdleBudget
    /\ IdleStore
    /\ \E S \in SUBSET (1..Len(DebtCategories)) : \E debt \in {50, 900} :
       \E income \in {0, 1000} :
          arg = [transactions |-> DebtTransactions(S, debt, income)]
    /\ out = <<>>
    /\ fpc = "input"

ComputeDebtToIncome ==
    /\ fpc = "input"
    /\ out' = [dashboard |-> debtToIncomeRatio(arg.transactions),
               server |-> calculateDebtToIncomeRatio(
                   [totalIncome |-> analyzeFinancialData(arg.transactions).totalIncome,
                    topExpenseCategories |-> topExpenseCategories(arg.transactions)])]
    /\ fpc' = "debt"
    /\ UNCHANGED << openaiApiKey, transactions, categorizedTransactions, i, pc,
                    fetched, replies, status, description, classified, cpc, arg,
                    budgetVars, storeVars >>

NextDebt == ComputeDebtToIncome

SpecDebt == InitDebt /\ [][NextDebt]_vars

\* The sum of the expenses of category 'Debt'.
TotalDebt(txs) ==
    SumAmounts(SelectSeq(txs, LAMBDA t : t.type = "expense" /\ t.category = "Debt"))

\* C23: the debt-to-income ratio of the Dashboard and of the server's
\* fallback insights is (sum of the 'Debt' expenses) / (total income) x 100,
\* and 0 when the total income is 0, for any number of expense categories.
C23_DebtToIncomeEverywhere ==
    fpc = "debt" =>
        LET ratio == IF TotalIncome(arg.transactions) = 0 THEN ZeroPercent
                     ELSE Percent(TotalDebt(arg.transactions),
                                  TotalIncome(arg.transactions))
        IN  /\ SamePercent(out.dashboard, ratio)
            /\ SamePercent(out.server, ratio)

(***************************************************************************)
(* SpecCsv: handleCsvImport of AddTransaction on the rows of a parsed file *)
(* (header: true, so every cell is a string).                              *)
(***************************************************************************)
\* Most rows of a file.
MaxRows == 2

Digits == << "0", "1", "2", "3", "4", "5", "6", "7", "8", "9" >>
IsDigit(c) == \E k \in 1..10 : Digits[k] = c
DigitValue(c) == (CHOOSE k \in 1..10 : Digits[k] = c) - 1

\* The number a run of digits at the head of s denotes, after acc, and the
\* number of digits at the head of s.
RECURSIVE DigitsValue(_, _)
DigitsValue(s, acc) ==
    IF s = <<>> \/ ~IsDigit(Head(s)) THEN acc
    ELSE DigitsValue(Tail(s), 10 * acc + DigitValue(Head(s)))

\* parseFloat on a string without a fraction or exponent: an optional sign
\* and the digits at its head, whatever follows them; NaN without a digit.
NaN == [nan |-> TRUE, value |-> 0]
parseFloat(s) ==
    LET signed == s # <<>> /\ Head(s) \in {"-", "+"}
        body == IF signed THEN Tail(s) ELSE s
    IN  IF body = <<>> \/ ~IsDigit(Head(body)) THEN NaN
        ELSE [nan |-> FALSE,
              value |-> IF signed /\ Head(s) = "-"
                        THEN 0 - DigitsValue(body, 0) ELSE DigitsValue(body, 0)]

\* amount.replace(/[$,\s]/g, '')
cleanAmount(amount) == SelectSeq(amount, LAMBDA c : ~(c \in {"$", ",", " "}))

\* date.replace(/x/g, '-')
ReplaceAll(s, x) == [k \in 1..Len(s) |-> IF s[k] = x THEN "-" ELSE s[k]]

\* new Date(string) on the date-only form YYYY-MM-DD of the standard; any
\* other string of the files here is an Invalid Date.
InvalidDate == [valid |-> FALSE, mi |-> 0, d |-> 0]
NewDate(s) ==
    IF /\ Len(s) = 10
       /\ s[5] = "-" /\ s[8] = "-"
       /\ \A k \in {1, 2, 3, 4, 6, 7, 9, 10} : IsDigit(s[k])
    THEN LET year == DigitsValue(SubSeq(s, 1, 4), 0)
             month == DigitsValue(SubSeq(s, 6, 7), 0)
             day == DigitsValue(SubSeq(s, 9, 10), 0)
         IN  IF month \in 1..12 /\ day \in 1..getDaysInMonth(12 * year + month - 1)
             THEN [valid |-> TRUE, mi |-> 12 * year + month - 1, d |-> day]
             ELSE InvalidDate
    ELSE InvalidDate

\* let parsedDate = new Date(); then the first of the three formats that
\* gives a valid date replaces it.
parsedDate(date, today) ==
    LET dateFormats == << date, ReplaceAll(date, "/"), ReplaceAll(date, ".") >>
        good == { k \in 1..3 : NewDate(dateFormats[k]).valid }
    IN  IF good = {} THEN today
        ELSE NewDate(dateFormats[CHOOSE k \in good : \A j \in good : k <= j])

\* The body of results.data.forEach for one row: the transaction pushed,
\* or nothing.
ImportRow(row, id, today) ==
    IF row.date # <<>> /\ row.amount # <<>> /\ row.expensedetail # <<>>
    THEN LET parsedAmount == parseFloat(cleanAmount(row.amount))
             date == parsedDate(row.date, today)
         IN  IF parsedAmount.nan \/ parsedAmount.value <= 0 THEN <<>>
             ELSE IF ~date.valid THEN <<>>
             ELSE << [id |-> id, date |-> [mi |-> date.mi, d |-> date.d],
                      category |-> "Uncategorized", subcategory |-> "Uncategorized",
                      amount |-> parsedAmount.value,
                      description |-> row.expensedetail, type |-> "expense"] >>
    ELSE <<>>

\* importedTransactions of handleCsvImport after the forEach over the rows
\* from row number k on.
RECURSIVE importedTransactions(_, _, _)
importedTransactions(rows, k, today) ==
    IF k > Len(rows) THEN <<>>
    ELSE ImportRow(rows[k], k, today) \o importedTransactions(rows, k + 1, today)

\* The cells of the column Date and of the column Amount in the files.
DateCells == { <<"2","0","2","4","-","0","1","-","1","5">>, <<"2","0","2","4","/","0","3","/","0","5">>, <<"2","0","2","4",".","0","3",".","0","5">>, <<"N","/","A">>, <<>> }
AmountCells == { <<"1","0","0">>, <<"$","1",",","2","0","0">>, <<"a","b","c">>, <<"-","5">>, <<"0">>, <<>> }
CsvRows ==
    { [date |-> dc, amount |-> ac, expensedetail |-> <<"r","e","n","t">>] :
         dc \in DateCells, ac \in AmountCells }

InitCsv ==
    /\ IdleServe
    /\ IdleClassify
    /\ IdleBudget
    /\ IdleStore
    /\ \E rows \in ListsUpTo(CsvRows, MaxRows) :
          arg = [rows |-> rows, today |-> [valid |-> TRUE, mi |-> 12 * 2024 + 4, d |-> 15]]
    /\ out = <<>>
    /\ fpc = "input"

HandleCsvImport ==
    /\ fpc = "input"
    /\ out' = importedTransactions(arg.rows, 1, arg.today)
    /\ fpc' = "imported"
    /\ UNCHANGED << openaiApiKey, transactions, categorizedTransactions, i, pc,
                    fetched, replies, status, description, classified, cpc, arg,
                    budgetVars, storeVars >>

NextCsv == HandleCsvImport

SpecCsv == InitCsv /\ [][NextCsv]_vars

\* The date and the amount that the cells of the files denote; the other
\* cells denote none.
DateOfCell(cell) ==
    IF cell = <<"2","0","2","4","-","0","1","-","1","5">> THEN [mi |-> 12 * 2024, d |-> 15]
    ELSE [mi |-> 12 * 2024 + 2, d |-> 5]
AmountOfCell(cell) == IF cell = <<"1","0","0">> THEN 100 ELSE 1200
ValidRow(row) ==
    /\ row.date \in { <<"2","0","2","4","-","0","1","-","1","5">>, <<"2","0","2","4","/","0","3","/","0","5">>, <<"2","0","2","4",".","0","3",".","0","5">> }
    /\ row.amount \in { <<"1","0","0">>, <<"$","1",",","2","0","0">> }

\* C22: the imported transactions are those of the valid rows of the file,
\* in the order of the file and with the date and amount of their row: a row
\* whose date or amount cannot be parsed, or whose amount is not positive,
\* adds nothing and stops nothing.
C22_BadRowsSkippedValidRowsImported ==
    fpc = "imported" =>
        LET valid == SelectSeq([k \in 1..Len(arg.rows) |->
                                   [row |-> arg.rows[k], id |-> k]],
                               LAMBDA r : ValidRow(r.row))
        IN  /\ Len(out) = Len(valid)
            /\ \A k \in 1..Len(valid) :
                  /\ out[k].id = valid[k].id
                  /\ out[k].date = DateOfCell(valid[k].row.date)
                  /\ out[k].amount = AmountOfCell(valid[k].row.amount)

====
